---- MODULE Spec2Model ----
(***************************************************************************)
(* Model of the text-extraction, diff-resolution, file-tree parsing,       *)
(* backlinks, table-of-contents, heading-id and version-comparison         *)
(* routines of the documentation site (Markdoc tags, React components and  *)
(* library modules).                                                       *)
(*                                                                         *)
(* Strings are sequences of one-character strings.  JavaScript values are  *)
(* records tagged by the field t:                                          *)
(*   [t |-> "undefined"], [t |-> "null"], [t |-> "boolean", b |-> ...],    *)
(*   [t |-> "number", n |-> ...], [t |-> "string", s |-> ...],             *)
(*   [t |-> "array", items |-> <<...>>], [t |-> "object", props |-> rec].  *)
(***************************************************************************)
EXTENDS Integers, Sequences, FiniteSets, TLC

VARIABLES
    node,             \* extractor input: the value handed to extractRawText
    rawText,          \* result of extractRawText(node)
    transformedText,  \* __content computed by original.transform over node
    diffChildren,     \* children of the {% diff %} tag being transformed
    originalText,     \* attribute of the Tag returned by diff.transform
    newText,          \* attribute of the Tag returned by diff.transform
    content,          \* text handed to parseFileTree
    treeNodes,        \* heap of TreeNode objects created by parseFileTree
    treeRoot,         \* the returned root array (references into treeNodes)
    pages,            \* PageInfo[] handed to buildBacklinksIndex
    index,            \* BacklinksIndex: sequence of <<key, entries>> in insertion order
    pagePath,         \* path handed to getBacklinksForPage
    backlinks,        \* value returned by getBacklinksForPage
    rendered,         \* rendered node handed to collectHeadings
    toc,              \* sections returned by collectHeadings
    headingCounter,   \* module-level counter of adr.markdoc.ts
    docIds,           \* ids given to the headings of the document being transformed
    docHeadings,        \* attributes of the headings of the document being transformed
    renderedDocs,     \* headings and ids of the documents transformed so far
    tagA,             \* first argument of compareSemVer
    tagB,             \* second argument of compareSemVer
    comparison,       \* value returned by compareSemVer(tagA, tagB)
    formatted,        \* <<formatVersion(tagA), formatVersion(tagB)>>
    versionSource,    \* "git" or "openapi": the argument of getVersions
    gitRepo,          \* what the git command gives: failure, or its output
    openapiDir,       \* public/openapi: existence, legacy file, file names
    versionConfig,    \* VersionConfig returned by getVersions
    versions,         \* Version[] handed to sortVersions
    sortedVersions,   \* Version[] returned by sortVersions
    levelNodes,       \* heap of TreeNode objects created by the level parser
    levelRoot,        \* the root array returned by the level parser
    calls,            \* the renderMermaidInIframe calls made so far
    inFlight,         \* messages posted to the window and not yet dispatched
    storeListeners,   \* keyboardStore.listeners
    keydownAttached,  \* document has keyboardStore.handleKeyDown attached
    paletteAttached,  \* window has keyboardStore.handleCustomEvent attached
    isOpen,           \* keyboardStore.isOpen
    subscriptions,    \* state of every subscription made so far
    lastNotified,     \* the event of the last step and the listeners it called
    done              \* names of the operations that have run

extractVars == <<node, rawText, transformedText>>
diffVars == <<diffChildren, originalText, newText>>
treeVars == <<content, treeNodes, treeRoot>>
backlinkVars == <<pages, index, pagePath, backlinks>>
tocVars == <<rendered, toc>>
headingVars == <<headingCounter, docIds, docHeadings, renderedDocs>>
semverVars == <<tagA, tagB, comparison, formatted>>
versionVars == <<versionSource, gitRepo, openapiDir, versionConfig, versions,
                 sortedVersions>>

levelTreeVars == <<levelNodes, levelRoot>>
mermaidVars == <<calls, inFlight>>
storeVars == <<storeListeners, keydownAttached, paletteAttached, isOpen,
               subscriptions, lastNotified>>

vars == <<extractVars, diffVars, treeVars, backlinkVars, tocVars, headingVars,
          semverVars, versionVars, levelTreeVars, mermaidVars, storeVars, done>>

----------------------------------------------------------------------------
(* Bounds *)

MaxStr == 2      \* longest string drawn for fence content
MaxArr == 2      \* longest array drawn as extractor input
MaxKids == 2     \* longest children array of a drawn object
MaxDiffKids == 3 \* most children of a diff tag
MaxLines == 4    \* most lines of a file-tree text
MaxIndent == 2   \* deepest indentation of a file-tree line

----------------------------------------------------------------------------
(* Strings *)

NL == "\n"
TAB == "\t"
SP == " "

Whitespace == {SP, NL, TAB}

RECURSIVE Concat(_)
\* ""-join of a sequence of strings
Concat(parts) ==
    IF parts = <<>> THEN <<>> ELSE Head(parts) \o Concat(Tail(parts))

RECURSIVE Join(_, _)
\* Array.prototype.join
Join(parts, sep) ==
    IF parts = <<>> THEN <<>>
    ELSE IF Len(parts) = 1 THEN parts[1]
    ELSE parts[1] \o sep \o Join(Tail(parts), sep)

RECURSIVE TrimStart(_)
TrimStart(s) ==
    IF s # <<>> /\ Head(s) \in Whitespace THEN TrimStart(Tail(s)) ELSE s

RECURSIVE TrimEnd(_)
TrimEnd(s) ==
    IF s # <<>> /\ s[Len(s)] \in Whitespace
    THEN TrimEnd(SubSeq(s, 1, Len(s) - 1)) ELSE s

\* String.prototype.trim
Trim(s) == TrimEnd(TrimStart(s))

RECURSIVE StringsUpTo(_, _)
\* all strings over alphabet of length <= n
StringsUpTo(alphabet, n) ==
    IF n = 0 THEN {<<>>}
    ELSE LET shorter == StringsUpTo(alphabet, n - 1)
         IN  shorter \cup {<<c>> \o s : c \in alphabet, s \in {r \in shorter : Len(r) = n - 1}}

RECURSIVE SeqsUpTo(_, _)
\* all sequences over S of length <= n
SeqsUpTo(S, n) ==
    IF n = 0 THEN {<<>>}
    ELSE LET shorter == SeqsUpTo(S, n - 1)
         IN  shorter \cup {Append(s, e) : s \in {r \in shorter : Len(r) = n - 1}, e \in S}

----------------------------------------------------------------------------
(* JavaScript values *)

Undef == [t |-> "undefined"]
Null == [t |-> "null"]
Bool(b) == [t |-> "boolean", b |-> b]
Num(n) == [t |-> "number", n |-> n]
Str(s) == [t |-> "string", s |-> s]
Arr(items) == [t |-> "array", items |-> items]
Obj(props) == [t |-> "object", props |-> props]

\* the typeof operator
TypeOf(v) ==
    IF v.t \in {"null", "array", "object"} THEN "object" ELSE v.t

\* ToBoolean: the truthiness test of if (...), !x, && and ||
Truthy(v) ==
    CASE v.t = "undefined" -> FALSE
      [] v.t = "null" -> FALSE
      [] v.t = "boolean" -> v.b
      [] v.t = "number" -> v.n # 0
      [] v.t = "string" -> v.s # <<>>
      [] OTHER -> TRUE

IsArray(v) == v.t = "array"

\* x !== undefined && x !== null
NotNullish(v) == v.t # "undefined" /\ v.t # "null"

\* what an exception leaves in place of a string result
TypeError == <<"TypeError">>

\* property read v.f on a value that is not null or undefined
Prop(v, f) ==
    IF v.t = "object" /\ f \in DOMAIN v.props THEN v.props[f] ELSE Undef

\* the in operator on an object
HasProp(v, f) == v.t = "object" /\ f \in DOMAIN v.props

Digit(n) == <<"0", "1", "2", "3", "4", "5", "6", "7", "8", "9">>[n + 1]

RECURSIVE ToStr(_)
\* String(v); numbers are single digits
ToStr(v) ==
    CASE v.t = "string" -> v.s
      [] v.t = "number" -> <<Digit(v.n)>>
      [] v.t = "boolean" -> IF v.b THEN <<"t", "r", "u", "e">>
                            ELSE <<"f", "a", "l", "s", "e">>
      [] v.t = "null" -> <<"n", "u", "l", "l">>
      [] v.t = "undefined" -> <<"u", "n", "d", "e", "f", "i", "n", "e", "d">>
      [] v.t = "array" ->
            Join([i \in 1..Len(v.items) |->
                    IF NotNullish(v.items[i]) THEN ToStr(v.items[i]) ELSE <<>>],
                 <<",">>)
      [] OTHER -> <<"[", "o", "b", "j", "e", "c", "t", " ",
                    "O", "b", "j", "e", "c", "t", "]">>

IsTypeStr(v, name) == v.t = "string" /\ v.s = name

T_fence == <<"f", "e", "n", "c", "e">>
T_paragraph == <<"p", "a", "r", "a", "g", "r", "a", "p", "h">>
T_text == <<"t", "e", "x", "t">>
T_tag == <<"t", "a", "g">>
T_original == <<"o", "r", "i", "g", "i", "n", "a", "l">>
T_new == <<"n", "e", "w">>
T_p == <<"p">>

----------------------------------------------------------------------------
(* extractRawText *)

\* `!node`
IsFalsy_onlyUndefined(v) == v.t = "undefined"
IsFalsy(v) == ~Truthy(v)

\* String(node.attributes.content) of a fence node
FenceText_trimmed(n) == Trim(ToStr(Prop(Prop(n, "attributes"), "content")))
FenceText(n) == ToStr(Prop(Prop(n, "attributes"), "content"))

\* the separator of parts.join(...) in the array branch
ArraySeparator == <<NL>>

RECURSIVE extractRawText(_)

\* the parts pushed by the loop over an array (or a paragraph's children):
\* strings as they are, other items by their extracted text unless empty
Parts(items) ==
    LET part(i) ==
            IF TypeOf(items[i]) = "string" THEN <<items[i].s>>
            ELSE LET text == extractRawText(items[i])
                 IN  IF text # <<>> THEN <<text>> ELSE <<>>
    IN  Concat([i \in 1..Len(items) |-> part(i)])

\* an exception thrown by a recursive call propagates to the caller
Propagate(parts, result) ==
    IF \E i \in 1..Len(parts) : parts[i] = TypeError THEN TypeError ELSE result

\* children.filter(c => typeof c === "string").join("")
StringChildren(items) ==
    Concat([i \in 1..Len(items) |->
              IF TypeOf(items[i]) = "string" THEN items[i].s ELSE <<>>])

\* the typeof node === "object" block
ObjectText(n) ==
    IF ~NotNullish(n) THEN TypeError  \* node.type read on null
    ELSE
    LET type == Prop(n, "type")
        attributes == Prop(n, "attributes")
        children == Prop(n, "children")
        hasChildren == Truthy(children) /\ IsArray(children)
    IN  IF /\ IsTypeStr(type, T_fence)
           /\ Truthy(attributes)
           /\ NotNullish(Prop(attributes, "content"))
        THEN FenceText(n)
        ELSE IF IsTypeStr(type, T_paragraph) /\ hasChildren
        THEN LET paraParts == Parts(children.items)
             IN  Propagate(paraParts, Concat(paraParts) \o <<NL>>)
        ELSE IF IsTypeStr(type, T_text) /\ NotNullish(Prop(n, "content"))
        THEN ToStr(Prop(n, "content"))
        ELSE IF IsTypeStr(type, T_text) /\ NotNullish(Prop(n, "value"))
        THEN ToStr(Prop(n, "value"))
        ELSE IF IsTypeStr(type, T_text) /\ hasChildren
        THEN IF StringChildren(children.items) # <<>>
             THEN StringChildren(children.items)
             ELSE extractRawText(children)
        ELSE IF NotNullish(Prop(n, "content")) THEN ToStr(Prop(n, "content"))
        ELSE IF NotNullish(Prop(n, "value")) THEN ToStr(Prop(n, "value"))
        ELSE IF hasChildren THEN extractRawText(children)
        ELSE <<>>

extractRawText(n) ==
    IF TypeOf(n) = "string" THEN n.s
    ELSE IF TypeOf(n) = "number" THEN ToStr(n)
    ELSE IF IsFalsy(n) THEN <<>>
    ELSE IF IsArray(n)
    THEN LET parts == Parts(n.items)
         IN  Propagate(parts, Join(parts, ArraySeparator))
    ELSE IF TypeOf(n) = "object" THEN ObjectText(n)
    ELSE <<>>

----------------------------------------------------------------------------
(* extractTextFromTransformed *)

\* "\n" pushed after the children of a Tag named "p"
ParagraphSuffix(tag) ==
    IF IsTypeStr(Prop(tag, "name"), T_p) THEN <<NL>> ELSE <<>>

RECURSIVE extractTextFromTransformed(_)
extractTextFromTransformed(items) ==
    LET part(item) ==
            IF TypeOf(item) = "string" THEN item.s
            ELSE IF Truthy(item) /\ TypeOf(item) = "object"
            THEN IF HasProp(item, "name") /\ HasProp(item, "children")
                 THEN IF Truthy(Prop(item, "children")) /\ IsArray(Prop(item, "children"))
                      THEN extractTextFromTransformed(Prop(item, "children").items)
                           \o ParagraphSuffix(item)
                      ELSE <<>>
                 ELSE IF /\ HasProp(item, "props")
                         /\ TypeOf(Prop(item, "props")) = "object"
                         /\ Prop(item, "props").t # "null"
                 THEN LET children == Prop(Prop(item, "props"), "children")
                      IN  IF ~Truthy(children) THEN <<>>
                          ELSE IF TypeOf(children) = "string" THEN children.s
                          ELSE IF IsArray(children)
                          THEN extractTextFromTransformed(children.items)
                          ELSE <<>>
                 ELSE <<>>
            ELSE <<>>
    IN  Concat([i \in 1..Len(items) |-> part(items[i])])

\* new Tag(name, attributes, children)
Tag(name, attributes, children) ==
    Obj([name |-> name, attributes |-> attributes, children |-> children])

RECURSIVE transformNode(_)
\* node.transformChildren(config): each child through its schema's transform
transformChildren(children) ==
    [i \in 1..Len(children) |-> transformNode(children[i])]

\* original.transform / newTag.transform
markerTransform(n, tagName) ==
    LET children == transformChildren(
                        IF IsArray(Prop(n, "children")) THEN Prop(n, "children").items ELSE <<>>)
        text == extractTextFromTransformed(children)
    IN  Tag(Null, Obj([__content |-> Str(text), __tag |-> Str(tagName)]), Arr(<<>>))

\* the transform of one AST child: text as its string, a paragraph as a "p"
\* Tag over its transformed children, a fence as a "pre" Tag over its content,
\* an original/new tag by its own transform
transformNode(n) ==
    IF TypeOf(n) = "string" THEN n
    ELSE IF n.t # "object" THEN Null
    ELSE LET type == Prop(n, "type")
             kids == IF IsArray(Prop(n, "children")) THEN Prop(n, "children").items ELSE <<>>
         IN  IF IsTypeStr(type, T_paragraph)
             THEN Tag(Str(T_p), Obj(<<>>), Arr(transformChildren(kids)))
             ELSE IF IsTypeStr(type, T_text)
             THEN Prop(Prop(n, "attributes"), "content")
             ELSE IF IsTypeStr(type, T_fence)
             THEN Tag(Str(<<"p", "r", "e">>), Obj(<<>>),
                      Arr(<<Prop(Prop(n, "attributes"), "content")>>))
             ELSE IF IsTypeStr(type, T_tag) /\ IsTypeStr(Prop(n, "tag"), T_original)
             THEN markerTransform(n, T_original)
             ELSE IF IsTypeStr(type, T_tag) /\ IsTypeStr(Prop(n, "tag"), T_new)
             THEN markerTransform(n, T_new)
             ELSE Null

----------------------------------------------------------------------------
(* diff.transform *)

\* String(fence.attributes?.content || "")
fenceContent(fence) ==
    LET attributes == Prop(fence, "attributes")
        c == IF NotNullish(attributes) THEN Prop(attributes, "content") ELSE Undef
    IN  IF Truthy(c) THEN ToStr(c) ELSE <<>>

\* the children pushed to fenceNodes
fenceNodes(children) ==
    SelectSeq(children, LAMBDA child : Truthy(child) /\ IsTypeStr(Prop(child, "type"), T_fence))

\* originalText and newText after the fence scan
fenceScan(children) ==
    LET fences == fenceNodes(children)
    IN  IF Len(fences) >= 2
        THEN [originalText |-> fenceContent(fences[1]), newText |-> fenceContent(fences[2])]
        ELSE IF Len(fences) = 1
        THEN [originalText |-> fenceContent(fences[1]), newText |-> <<>>]
        ELSE [originalText |-> <<>>, newText |-> <<>>]

\* the guard of the fallback block
needsFallback_either(children, scan) == scan.originalText = <<>> \/ scan.newText = <<>>
needsFallback(children, scan) == scan.originalText = <<>> /\ scan.newText = <<>>

RECURSIVE markerScan(_, _)
\* the loop over the transformed children: __content by __tag, the last wins
markerScan(transformed, acc) ==
    IF transformed = <<>> THEN acc
    ELSE LET child == Head(transformed)
             attributes == Prop(child, "attributes")
             marked == /\ Truthy(child) /\ TypeOf(child) = "object"
                       /\ HasProp(child, "attributes") /\ Truthy(attributes)
                       /\ HasProp(attributes, "__content")
             text == ToStr(Prop(attributes, "__content"))
             tagType == Prop(attributes, "__tag")
         IN  markerScan(Tail(transformed),
                 IF marked /\ IsTypeStr(tagType, T_original)
                 THEN [acc EXCEPT !.originalText = text]
                 ELSE IF marked /\ IsTypeStr(tagType, T_new)
                 THEN [acc EXCEPT !.newText = text]
                 ELSE acc)

RECURSIVE rawScan(_, _)
\* the final fallback loop: raw extraction from original/new tags, the first
\* non-empty text wins
rawScan(children, acc) ==
    IF children = <<>> THEN acc
    ELSE LET child == Head(children)
             isTag == Truthy(child) /\ IsTypeStr(Prop(child, "type"), T_tag)
             kids == IF Truthy(Prop(child, "children")) THEN Prop(child, "children") ELSE Arr(<<>>)
         IN  rawScan(Tail(children),
                 IF isTag /\ IsTypeStr(Prop(child, "tag"), T_original) /\ acc.originalText = <<>>
                 THEN [acc EXCEPT !.originalText = extractRawText(kids)]
                 ELSE IF isTag /\ IsTypeStr(Prop(child, "tag"), T_new) /\ acc.newText = <<>>
                 THEN [acc EXCEPT !.newText = extractRawText(kids)]
                 ELSE acc)

\* the originalText/newText attributes of the Tag diff.transform returns
diffTransform(children) ==
    LET scan == fenceScan(children)
    IN  IF needsFallback(children, scan)
        THEN LET marked == markerScan(transformChildren(children), scan)
             IN  IF marked.originalText = <<>> \/ marked.newText = <<>>
                 THEN rawScan(children, marked)
                 ELSE marked
        ELSE scan

----------------------------------------------------------------------------
(* parseFileTree (components/CodeBlock.tsx) *)

RECURSIVE Split(_, _)
\* String.prototype.split on a one-character separator
Split(s, sep) ==
    IF \A i \in 1..Len(s) : s[i] # sep THEN <<s>>
    ELSE LET k == CHOOSE i \in 1..Len(s) : s[i] = sep /\ \A j \in 1..(i - 1) : s[j] # sep
         IN  <<SubSeq(s, 1, k - 1)>> \o Split(SubSeq(s, k + 1, Len(s)), sep)

\* line.search(/\S/) of a line that is not blank
searchNonSpace(line) == Len(line) - Len(TrimStart(line))

\* name.endsWith("/")
endsWithSlash(name) == name # <<>> /\ name[Len(name)] = "/"

\* the object literal assigned to node
newTreeNode_alwaysChildren(name) ==
    [name |-> IF endsWithSlash(name) THEN SubSeq(name, 1, Len(name) - 1) ELSE name,
     isFolder |-> endsWithSlash(name),
     children |-> Arr(<<>>)]
newTreeNode(name) ==
    [name |-> IF endsWithSlash(name) THEN SubSeq(name, 1, Len(name) - 1) ELSE name,
     isFolder |-> endsWithSlash(name),
     children |-> IF endsWithSlash(name) THEN Arr(<<>>) ELSE Undef]

RECURSIVE popStack(_, _)
\* while (stack.length > 0 && stack[stack.length - 1].indent >= indent) stack.pop()
popStack(stack, indent) ==
    IF stack # <<>> /\ stack[Len(stack)].indent >= indent
    THEN popStack(SubSeq(stack, 1, Len(stack) - 1), indent)
    ELSE stack

\* if (isFolder) stack.push({ node, indent })
pushStack_always(stack, id, indent, isFolder) == Append(stack, [node |-> id, indent |-> indent])
pushStack(stack, id, indent, isFolder) ==
    IF isFolder THEN Append(stack, [node |-> id, indent |-> indent]) ELSE stack

\* one iteration of the loop over the lines; st holds the heap of nodes
\* created so far (a node is referred to by its index), root and stack
parseLine(st, line) ==
    IF Trim(line) = <<>> THEN st
    ELSE LET indent == searchNonSpace(line)
             n == newTreeNode(Trim(line))
             id == Len(st.nodes) + 1
             stack == popStack(st.stack, indent)
             created == Append(st.nodes, n)
             parent == stack[Len(stack)].node
         IN  [nodes |-> IF stack # <<>> /\ Truthy(created[parent].children)
                        THEN [created EXCEPT ![parent].children =
                                  Arr(Append(created[parent].children.items, id))]
                        ELSE created,
              root |-> IF stack = <<>> THEN Append(st.root, id) ELSE st.root,
              stack |-> pushStack(stack, id, indent, n.isFolder)]

RECURSIVE parseLines(_, _)
parseLines(st, lines) ==
    IF lines = <<>> THEN st ELSE parseLines(parseLine(st, Head(lines)), Tail(lines))

\* content.trim().split("\n")
splitLines(text) == Split(Trim(text), NL)

parseFileTree(text) ==
    parseLines([nodes |-> <<>>, root |-> <<>>, stack |-> <<>>], splitLines(text))

----------------------------------------------------------------------------
(* Inputs *)

\* a property an object literal leaves out
Absent == [t |-> "absent"]

\* an object with the given properties, those marked Absent left out
MkObj(fields) ==
    Obj([f \in {g \in DOMAIN fields : fields[g] # Absent} |-> fields[f]])

paragraph(children) == Obj([type |-> Str(T_paragraph), children |-> Arr(children)])
fence(s) == Obj([type |-> Str(T_fence), attributes |-> Obj([content |-> Str(s)]),
                 children |-> Arr(<<>>)])
tag(name, children) == Obj([type |-> Str(T_tag), tag |-> Str(name),
                            attributes |-> Obj(<<>>), children |-> Arr(children)])

\* the strings drawn as fence content
FenceStrs(maxStr) == StringsUpTo({"a", SP, NL, TAB}, maxStr)

Leaves ==
    {Undef, Null, Bool(TRUE), Bool(FALSE), Num(0), Num(7)}
        \cup {Str(s) : s \in {<<>>, <<"a">>, <<"b">>}}

KidSet ==
    {Str(<<"a">>), Str(<<"b">>), Null,
     Obj([type |-> Str(T_text), content |-> Str(<<"c">>)])}

\* fence nodes over every content string, with and without the properties
\* the later rules of the extractor look at
FenceObjects(maxStr) ==
    {MkObj([type |-> Str(T_fence), attributes |-> Obj([content |-> Str(c)]),
            children |-> ch, content |-> co, value |-> va]) :
        c \in FenceStrs(maxStr),
        ch \in {Absent, Arr(<<Str(<<"a">>)>>)},
        co \in {Absent, Str(<<"c">>)},
        va \in {Absent, Str(<<"v">>)}}

\* objects of every type with every combination of present, absent and null
\* properties
Objects(maxKids) ==
    {MkObj([type |-> ty, attributes |-> at, children |-> ch, content |-> co, value |-> va]) :
        ty \in {Absent} \cup {Str(n) : n \in {T_fence, T_paragraph, T_text, T_tag}},
        at \in {Absent, Null, Obj(<<>>), Obj([content |-> Null]),
                Obj([content |-> Str(<<SP, "a">>)])},
        ch \in {Absent, Str(<<"a">>)} \cup {Arr(k) : k \in SeqsUpTo(KidSet, maxKids)},
        co \in {Absent, Null, Str(<<"c">>), Num(0)},
        va \in {Absent, Str(<<"v">>)}}

Elems ==
    {Str(<<>>), Str(<<"a">>), Str(<<"b">>), Null, Num(7), Bool(TRUE),
     paragraph(<<>>), paragraph(<<Str(<<"a">>)>>), paragraph(<<Str(<<"b">>)>>),
     paragraph(<<Str(<<"a">>), Str(<<"b">>)>>),
     fence(<<SP, "a">>),
     Obj([children |-> Arr(<<Str(<<"a">>), Str(<<"b">>)>>)])}

ExtractInputs(maxStr, maxArr, maxKids) ==
    Leaves \cup FenceObjects(maxStr) \cup Objects(maxKids)
        \cup {Arr(x) : x \in SeqsUpTo(Elems, maxArr)}

DiffKidSet ==
    {fence(<<>>), fence(<<"x">>), fence(<<SP, "y", NL>>),
     tag(T_original, <<>>),
     tag(T_original, <<paragraph(<<Str(<<"a">>)>>)>>),
     tag(T_original, <<paragraph(<<Str(<<"a">>)>>), paragraph(<<Str(<<"c">>)>>)>>),
     tag(T_new, <<>>),
     tag(T_new, <<paragraph(<<Str(<<"b">>)>>)>>)}

DiffInputs(maxKids) == SeqsUpTo(DiffKidSet, maxKids)

\* the name of the i-th line of a file-tree text
Letter(i) == <<"a", "b", "c", "d", "e", "f">>[i]

Spaces(k) == [i \in 1..k |-> SP]

\* a line: a blank line, or k spaces and then a file name or a folder name
LineShapes(maxIndent) ==
    {<<0, "blank">>, <<1, "blank">>} \cup ((0..maxIndent) \X {"file", "folder"})

LineText(i, shape) ==
    Spaces(shape[1]) \o
        (CASE shape[2] = "blank" -> <<>>
           [] shape[2] = "file" -> <<Letter(i)>>
           [] shape[2] = "folder" -> <<Letter(i), "/">>)

TreeText(shapes) == Join([i \in 1..Len(shapes) |-> LineText(i, shapes[i])], <<NL>>)

TreeInputs(maxLines, maxIndent) ==
    {TreeText(sh) : sh \in SeqsUpTo(LineShapes(maxIndent), maxLines)}

----------------------------------------------------------------------------
(* The state machine *)

\* Values of the variables of a subsystem that is not exercised
IdleExtract == node = Undef /\ rawText = <<>> /\ transformedText = <<>>
IdleDiff == diffChildren = <<>> /\ originalText = <<>> /\ newText = <<>>
IdleTree == content = <<>> /\ treeNodes = <<>> /\ treeRoot = <<>>
IdleBacklinks == pages = <<>> /\ index = <<>> /\ pagePath = <<>> /\ backlinks = Undef
IdleToc == rendered = Undef /\ toc = [thrown |-> FALSE, sections |-> <<>>]
IdleHeading ==
    headingCounter = 0 /\ docIds = <<>> /\ docHeadings = <<>> /\ renderedDocs = <<>>
IdleSemVer ==
    tagA = <<>> /\ tagB = <<>> /\ comparison = 0 /\ formatted = <<>>
NoGit == [available |-> FALSE, output |-> <<>>]
NoDir == [exists |-> FALSE, legacy |-> FALSE, files |-> <<>>]
NoConfig == [current |-> <<>>, versions |-> <<>>]
IdleVersions ==
    /\ versionSource = "git"
    /\ gitRepo = NoGit
    /\ openapiDir = NoDir
    /\ versionConfig = NoConfig
    /\ versions = <<>>
    /\ sortedVersions = <<>>
IdleLevelTree == levelNodes = <<>> /\ levelRoot = <<>>
IdleMermaid == calls = <<>> /\ inFlight = {}
NoEvent == [event |-> "none", listeners |-> {}]
IdleStore ==
    /\ storeListeners = {}
    /\ keydownAttached = FALSE
    /\ paletteAttached = FALSE
    /\ isOpen = FALSE
    /\ subscriptions = <<>>
    /\ lastNotified = NoEvent

\* extractRawText(node)
ExtractRawText ==
    /\ "extractRawText" \notin done
    /\ rawText' = extractRawText(node)
    /\ done' = done \cup {"extractRawText"}
    /\ UNCHANGED <<node, transformedText, diffVars, treeVars,
                   backlinkVars, tocVars, headingVars, semverVars, versionVars, levelTreeVars,
                   mermaidVars, storeVars>>

\* original.transform on an {% original %} tag whose children are node
OriginalTransform ==
    /\ "original.transform" \notin done
    /\ IsArray(node)
    /\ transformedText' =
           ToStr(Prop(Prop(markerTransform(Obj([children |-> node]), T_original),
                           "attributes"), "__content"))
    /\ done' = done \cup {"original.transform"}
    /\ UNCHANGED <<node, rawText, diffVars, treeVars,
                   backlinkVars, tocVars, headingVars, semverVars, versionVars, levelTreeVars,
                   mermaidVars, storeVars>>

\* diff.transform on a {% diff %} tag whose children are diffChildren
DiffTransform ==
    /\ "diff.transform" \notin done
    /\ LET attrs == diffTransform(diffChildren)
       IN  /\ originalText' = attrs.originalText
           /\ newText' = attrs.newText
    /\ done' = done \cup {"diff.transform"}
    /\ UNCHANGED <<extractVars, diffChildren, treeVars,
                   backlinkVars, tocVars, headingVars, semverVars, versionVars, levelTreeVars,
                   mermaidVars, storeVars>>

\* parseFileTree(content)
ParseFileTree ==
    /\ "parseFileTree" \notin done
    /\ LET tree == parseFileTree(content)
       IN  /\ treeNodes' = tree.nodes
           /\ treeRoot' = tree.root
    /\ done' = done \cup {"parseFileTree"}
    /\ UNCHANGED <<extractVars, diffVars, content,
                   backlinkVars, tocVars, headingVars, semverVars, versionVars, levelTreeVars,
                   mermaidVars, storeVars>>

InitExtract ==
    /\ node \in ExtractInputs(MaxStr, MaxArr, MaxKids)
    /\ rawText = <<>>
    /\ transformedText = <<>>
    /\ IdleDiff
    /\ IdleTree
    /\ IdleBacklinks
    /\ IdleToc
    /\ IdleHeading
    /\ IdleSemVer
    /\ IdleVersions
    /\ IdleLevelTree
    /\ IdleMermaid
    /\ IdleStore
    /\ done = {}

NextExtract == ExtractRawText \/ OriginalTransform

SpecExtract == InitExtract /\ [][NextExtract]_vars

InitDiff ==
    /\ diffChildren \in DiffInputs(MaxDiffKids)
    /\ originalText = <<>>
    /\ newText = <<>>
    /\ IdleExtract
    /\ IdleTree
    /\ IdleBacklinks
    /\ IdleToc
    /\ IdleHeading
    /\ IdleSemVer
    /\ IdleVersions
    /\ IdleLevelTree
    /\ IdleMermaid
    /\ IdleStore
    /\ done = {}

NextDiff == DiffTransform

SpecDiff == InitDiff /\ [][NextDiff]_vars

InitTree ==
    /\ content \in TreeInputs(MaxLines, MaxIndent)
    /\ treeNodes = <<>>
    /\ treeRoot = <<>>
    /\ IdleExtract
    /\ IdleDiff
    /\ IdleBacklinks
    /\ IdleToc
    /\ IdleHeading
    /\ IdleSemVer
    /\ IdleVersions
    /\ IdleLevelTree
    /\ IdleMermaid
    /\ IdleStore
    /\ done = {}

NextTree == ParseFileTree

SpecTree == InitTree /\ [][NextTree]_vars

----------------------------------------------------------------------------
(* Properties of the text extractors *)

RawDone == "extractRawText" \in done
TransformedDone == "original.transform" \in done

IsStringValue(v) == v.t = "string"

\* a paragraph node whose children are plain strings
IsPlainParagraph(v) ==
    /\ v.t = "object"
    /\ DOMAIN v.props = {"type", "children"}
    /\ v.props.type = Str(T_paragraph)
    /\ v.props.children.t = "array"
    /\ \A i \in 1..Len(v.props.children.items) : IsStringValue(v.props.children.items[i])

\* an array of plain paragraphs
IsParagraphArray(v) ==
    v.t = "array" /\ \A i \in 1..Len(v.items) : IsPlainParagraph(v.items[i])

ParagraphText(p) ==
    Concat([i \in 1..Len(p.props.children.items) |-> p.props.children.items[i].s])

\* C1: an array of paragraph nodes extracts to each paragraph's text followed
\* by exactly one newline, with nothing else between the paragraphs
C1_ParagraphNewlineLaw ==
    (RawDone /\ IsParagraphArray(node)) =>
        rawText = Concat([i \in 1..Len(node.items) |-> ParagraphText(node.items[i]) \o <<NL>>])

\* C2: an array whose elements are all bare strings extracts to the direct
\* concatenation of the strings, with no separator
C2_BareStringsConcatenate ==
    (RawDone /\ node.t = "array" /\ \A i \in 1..Len(node.items) : IsStringValue(node.items[i])) =>
        rawText = Concat([i \in 1..Len(node.items) |-> node.items[i].s])

\* C3: for a sequence of plain paragraphs, extractRawText over the raw nodes
\* and extractTextFromTransformed over the transformed "p" tags return the
\* same string
C3_ExtractorsAgree ==
    (RawDone /\ TransformedDone /\ IsParagraphArray(node)) => rawText = transformedText

\* a node of type fence whose attributes.content is a string
IsFenceWithContent(v) ==
    /\ v.t = "object"
    /\ "type" \in DOMAIN v.props /\ v.props.type = Str(T_fence)
    /\ "attributes" \in DOMAIN v.props /\ v.props.attributes.t = "object"
    /\ "content" \in DOMAIN v.props.attributes.props
    /\ v.props.attributes.props.content.t = "string"

\* C4: a fence node with attributes.content = s extracts to exactly s,
\* whatever whitespace s holds and whatever children the node has
C4_FenceFidelity ==
    (RawDone /\ IsFenceWithContent(node)) => rawText = node.props.attributes.props.content.s

C4_Witness ==
    /\ RawDone
    /\ IsFenceWithContent(node)
    /\ "children" \in DOMAIN node.props
    /\ node.props.children.t = "array" /\ node.props.children.items # <<>>
    /\ Len(rawText) = MaxStr /\ rawText[1] \in Whitespace /\ rawText[MaxStr] \in Whitespace

\* a property that is missing, undefined or null
Missing(v, f) == f \notin DOMAIN v.props \/ v.props[f].t \in {"undefined", "null"}

\* a shape no rule of the extractor recognises: a boolean, or an object
\* without content, value or a children array that is no fence with content
Unrecognised(v) ==
    \/ v.t = "boolean"
    \/ /\ v.t = "object"
       /\ Missing(v, "content") /\ Missing(v, "value")
       /\ ("children" \in DOMAIN v.props => v.props.children.t # "array")
       /\ ~(/\ "type" \in DOMAIN v.props /\ v.props.type = Str(T_fence)
            /\ ~Missing(v, "attributes") /\ v.props.attributes.t = "object"
            /\ ~Missing(v.props.attributes, "content"))

\* C5: extractRawText never throws and returns the empty string for the
\* shapes it does not recognise, null and undefined included
C5_ExtractTotal ==
    RawDone =>
        /\ \A i \in 1..Len(rawText) : rawText[i] # "TypeError"
        /\ (node.t \in {"null", "undefined"} \/ Unrecognised(node)) => rawText = <<>>

C5_Witness ==
    /\ RawDone
    /\ node.t = "array"
    /\ \E i \in 1..Len(node.items) : node.items[i] = Null
    /\ \E i \in 1..Len(node.items) : node.items[i] = Bool(TRUE)
    /\ rawText = <<>>

----------------------------------------------------------------------------
(* Properties of the diff resolver *)

DiffDone == "diff.transform" \in done

IsFence(v) == v.t = "object" /\ "type" \in DOMAIN v.props /\ v.props.type = Str(T_fence)

IsLegacyTag(v, name) ==
    /\ v.t = "object"
    /\ "type" \in DOMAIN v.props /\ v.props.type = Str(T_tag)
    /\ "tag" \in DOMAIN v.props /\ v.props.tag = Str(name)

\* the raw content attributes of the fences among the diff tag's children
FenceContents ==
    LET fences == SelectSeq(diffChildren, IsFence)
    IN  [i \in 1..Len(fences) |-> fences[i].props.attributes.props.content.s]

\* the non-empty texts the legacy sub-tags of one kind carry, by either extractor
LegacyTexts(name) ==
    UNION {{extractTextFromTransformed(transformChildren(diffChildren[i].props.children.items)),
            extractRawText(diffChildren[i].props.children)} :
           i \in {j \in 1..Len(diffChildren) : IsLegacyTag(diffChildren[j], name)}}
        \ {<<>>}

\* C6: with two or more fences originalText is the first fence's content and
\* newText the second's; with exactly one fence originalText is its content
\* and newText is empty
C6_FencePriority ==
    DiffDone =>
        /\ Len(FenceContents) >= 2 =>
               originalText = FenceContents[1] /\ newText = FenceContents[2]
        /\ Len(FenceContents) = 1 =>
               originalText = FenceContents[1] /\ newText = <<>>

\* a field is resolved from the legacy sub-tags of its kind
ResolvedFromLegacy(value, name) ==
    IF LegacyTexts(name) = {} THEN value = <<>> ELSE value \in LegacyTexts(name)

ScanLeftBothEmpty ==
    /\ Len(FenceContents) >= 1 => FenceContents[1] = <<>>
    /\ Len(FenceContents) >= 2 => FenceContents[2] = <<>>

----------------------------------------------------------------------------
(* Properties of parseFileTree *)

TreeDone == "parseFileTree" \in done

\* the lines of the input as written, and as the parser measures them (the
\* text is trimmed as a whole before it is split)
InputLines == Split(content, NL)
MeasuredLines == Split(Trim(content), NL)

LeadingWs(line) == Len(line) - Len(TrimStart(line))
NonBlank(line) == Trim(line) # <<>>
IsFolderLine(line) == NonBlank(line) /\ Trim(line)[Len(Trim(line))] = "/"
LineName(line) ==
    IF IsFolderLine(line) THEN SubSeq(Trim(line), 1, Len(Trim(line)) - 1) ELSE Trim(line)

NodeIds == 1..Len(treeNodes)
HasNode(line) == \E n \in NodeIds : treeNodes[n].name = LineName(line)
NodeOf(line) == CHOOSE n \in NodeIds : treeNodes[n].name = LineName(line)

ParentsOf(n) ==
    {p \in NodeIds : /\ treeNodes[p].children.t = "array"
                     /\ \E k \in 1..Len(treeNodes[p].children.items) :
                            treeNodes[p].children.items[k] = n}
IsRoot(n) == \E k \in 1..Len(treeRoot) : treeRoot[k] = n

ChildOf(n, p) == ParentsOf(n) = {p} /\ ~IsRoot(n)
RootOnly(n) == ParentsOf(n) = {} /\ IsRoot(n)

Max(S) == CHOOSE x \in S : \A y \in S : y <= x

\* the node of line i is attached under the node of the last line of
\* candidates, or is a root when there is no candidate
AttachedUnder(lines, i, candidates) ==
    /\ HasNode(lines[i])
    /\ IF candidates = {} THEN RootOnly(NodeOf(lines[i]))
       ELSE ChildOf(NodeOf(lines[i]), NodeOf(lines[Max(candidates)]))

\* the preceding non-blank lines indented less than line i
LessIndentedBefore(lines, i) ==
    {j \in 1..(i - 1) : NonBlank(lines[j]) /\ LeadingWs(lines[j]) < LeadingWs(lines[i])}

OpenFoldersBefore(lines, i) ==
    {j \in LessIndentedBefore(lines, i) :
        /\ IsFolderLine(lines[j])
        /\ \A m \in (j + 1)..(i - 1) :
               NonBlank(lines[m]) => LeadingWs(lines[m]) > LeadingWs(lines[j])}

SameIndentFolders(lines) ==
    {p \in (1..Len(lines)) \X (1..Len(lines)) :
        /\ p[1] < p[2]
        /\ IsFolderLine(lines[p[1]]) /\ IsFolderLine(lines[p[2]])
        /\ LeadingWs(lines[p[1]]) = LeadingWs(lines[p[2]])}

NotParentAndChild(a, b) == a \notin ParentsOf(b) /\ b \notin ParentsOf(a)
Siblings(a, b) == ParentsOf(a) = ParentsOf(b) /\ (IsRoot(a) <=> IsRoot(b))

\* C9: two folder lines with the same leading-whitespace count in
\* the input are siblings and never parent and child
C9_SameIndentFoldersAreSiblings ==
    TreeDone =>
        \A p \in SameIndentFolders(InputLines) :
            LET a == NodeOf(InputLines[p[1]])
                b == NodeOf(InputLines[p[2]])
            IN  Siblings(a, b) /\ NotParentAndChild(a, b)

\* C10: a node has isFolder = true exactly when its children list is
\* present; a node that is no folder has no children list and is nobody's
\* parent
C10_FolderIffChildren ==
    TreeDone =>
        \A n \in NodeIds :
            /\ treeNodes[n].isFolder <=> treeNodes[n].children.t = "array"
            /\ ~treeNodes[n].isFolder =>
                   /\ treeNodes[n].children = Undef
                   /\ \A m \in NodeIds : n \notin ParentsOf(m)

C10_Witness ==
    /\ TreeDone
    /\ \E n \in NodeIds : treeNodes[n].isFolder /\ treeNodes[n].children.items # <<>>
    /\ \E n \in NodeIds : treeNodes[n].isFolder /\ treeNodes[n].children.items = <<>>
    /\ \E n \in NodeIds : ~treeNodes[n].isFolder /\ ParentsOf(n) # {}

----------------------------------------------------------------------------
(* Backlinks: src/lib/backlinks.ts *)

MaxPages == 2    \* most pages handed to buildBacklinksIndex
MaxLinks == 2    \* most links in the content of one page

\* String.prototype.startsWith
StartsWith(s, prefix) ==
    Len(s) >= Len(prefix) /\ SubSeq(s, 1, Len(prefix)) = prefix

\* the $-anchored match of a literal suffix
EndsWith(s, suffix) ==
    Len(s) >= Len(suffix) /\ SubSeq(s, Len(s) - Len(suffix) + 1, Len(s)) = suffix

RECURSIVE IndexOfFrom(_, _, _)
\* position of the first character c of s at or after position i, or 0
IndexOfFrom(s, c, i) ==
    IF i > Len(s) THEN 0
    ELSE IF s[i] = c THEN i
    ELSE IndexOfFrom(s, c, i + 1)

RECURSIVE RunEnd(_, _, _)
\* position after the longest run of characters of class at position i
RunEnd(s, i, class) ==
    IF i > Len(s) THEN i
    ELSE IF s[i] \in class THEN RunEnd(s, i + 1, class)
    ELSE i

\* path.replace(/\.md$/, "")
stripMd(path) ==
    IF EndsWith(path, <<".", "m", "d">>) THEN SubSeq(path, 1, Len(path) - 3)
    ELSE path

\* normalized.replace(/\/$/, "")
stripSlash(path) ==
    IF EndsWith(path, <<"/">>) THEN SubSeq(path, 1, Len(path) - 1)
    ELSE path

\* normalized.split("#")[0]
beforeHash(path) ==
    LET h == IndexOfFrom(path, "#", 1)
    IN  IF h = 0 THEN path ELSE SubSeq(path, 1, h - 1)

normalizeInternalPath(path) == beforeHash(stripSlash(stripMd(path)))

NoMatch == [start |-> 0, end |-> 0, href |-> <<>>]

\* one attempt of /\[([^\]]+)\]\(([^)]+)\)/ at position i
linkMatchAt(c, i) ==
    IF c[i] # "[" THEN NoMatch
    ELSE LET j == IndexOfFrom(c, "]", i + 1)
         IN  IF j = 0 \/ j = i + 1 THEN NoMatch
             ELSE IF j + 1 > Len(c) \/ c[j + 1] # "(" THEN NoMatch
             ELSE LET k == IndexOfFrom(c, ")", j + 2)
                  IN  IF k = 0 \/ k = j + 2 THEN NoMatch
                      ELSE [start |-> i, end |-> k,
                            href |-> SubSeq(c, j + 2, k - 1)]

RECURSIVE linkMatches(_, _)
\* the successive results of linkRegex.exec(content), scanning from position i
linkMatches(c, i) ==
    IF i > Len(c) THEN <<>>
    ELSE LET m == linkMatchAt(c, i)
         IN  IF m.start = 0 THEN linkMatches(c, i + 1)
             ELSE <<m>> \o linkMatches(c, m.end + 1)

\* \s
SpaceChars == {SP, NL, TAB}

\* \w
WordChars ==
    {"a", "b", "c", "d", "e", "f", "g", "h", "i", "j", "k", "l", "m",
     "n", "o", "p", "q", "r", "s", "t", "u", "v", "w", "x", "y", "z",
     "A", "B", "C", "D", "E", "F", "G", "H", "I", "J", "K", "L", "M",
     "N", "O", "P", "Q", "R", "S", "T", "U", "V", "W", "X", "Y", "Z",
     "0", "1", "2", "3", "4", "5", "6", "7", "8", "9", "_"}

Quote == "\""

\* one attempt of /click\s+\w+\s+"([^"]+)"/ at position i
clickMatchAt(c, i) ==
    IF i + 4 > Len(c) \/ SubSeq(c, i, i + 4) # <<"c", "l", "i", "c", "k">>
    THEN NoMatch
    ELSE LET a == RunEnd(c, i + 5, SpaceChars)
             b == RunEnd(c, a, WordChars)
             d == RunEnd(c, b, SpaceChars)
         IN  IF a = i + 5 \/ b = a \/ d = b THEN NoMatch
             ELSE IF d > Len(c) \/ c[d] # Quote THEN NoMatch
             ELSE LET e == IndexOfFrom(c, Quote, d + 1)
                  IN  IF e = 0 \/ e = d + 1 THEN NoMatch
                      ELSE [start |-> i, end |-> e,
                            href |-> SubSeq(c, d + 1, e - 1)]

RECURSIVE clickMatches(_, _)
\* the successive results of clickRegex.exec(content), scanning from position i
clickMatches(c, i) ==
    IF i > Len(c) THEN <<>>
    ELSE LET m == clickMatchAt(c, i)
         IN  IF m.start = 0 THEN clickMatches(c, i + 1)
             ELSE <<m>> \o clickMatches(c, m.end + 1)

\* href.startsWith("/") || href.startsWith("./") || href.startsWith("../")
isInternalHref(href) ==
    \/ StartsWith(href, <<"/">>)
    \/ StartsWith(href, <<".", "/">>)
    \/ StartsWith(href, <<".", ".", "/">>)

\* the matches of linkRegex whose href passes the filter
internalLinkMatches(c) ==
    SelectSeq(linkMatches(c, 1), LAMBDA m : isInternalHref(m.href))

\* the matches of clickRegex whose href passes the filter
internalClickMatches(c) ==
    SelectSeq(clickMatches(c, 1), LAMBDA m : StartsWith(m.href, <<"/">>))

extractMarkdownLinks(c) ==
    LET ms == internalLinkMatches(c)
    IN  [i \in 1..Len(ms) |-> normalizeInternalPath(ms[i].href)]

extractMermaidLinks(c) ==
    LET ms == internalClickMatches(c)
    IN  [i \in 1..Len(ms) |-> normalizeInternalPath(ms[i].href)]

\* names every object inherits from Object.prototype
ObjectPrototypeMembers ==
    {<<"c", "o", "n", "s", "t", "r", "u", "c", "t", "o", "r">>,
     <<"t", "o", "S", "t", "r", "i", "n", "g">>,
     <<"v", "a", "l", "u", "e", "O", "f">>,
     <<"_", "_", "p", "r", "o", "t", "o", "_", "_">>}

\* a member found on the prototype chain
Inherited(key) == [t |-> "function", name |-> key]

\* own string key of the index object
HasOwn(idx, key) == \E i \in 1..Len(idx) : idx[i].key = key

OwnEntries(idx, key) ==
    LET i == CHOOSE n \in 1..Len(idx) : idx[n].key = key
    IN  idx[i].entries

\* index[key]
Get(idx, key) ==
    IF HasOwn(idx, key) THEN Arr(OwnEntries(idx, key))
    ELSE IF key \in ObjectPrototypeMembers THEN Inherited(key)
    ELSE Undef

\* if (!index[key]) index[key] = []; index[key].push(entry)
\* (a key comes from normalizeInternalPath applied to an href that starts
\* with "/" or ".", so it never names an inherited member)
pushEntry(idx, key, entry) ==
    IF ~Truthy(Get(idx, key))
    THEN Append(idx, [key |-> key, entries |-> <<entry>>])
    ELSE [i \in 1..Len(idx) |->
            IF idx[i].key = key
            THEN [key |-> key, entries |-> Append(idx[i].entries, entry)]
            ELSE idx[i]]

BacklinkEntry(page, linkType) ==
    [sourcePath |-> page.path, sourceTitle |-> page.title, linkType |-> linkType]

RECURSIVE pushLinks(_, _, _, _)
\* for (const targetPath of links) { ... push ... }
pushLinks(idx, links, page, linkType) ==
    IF links = <<>> THEN idx
    ELSE pushLinks(pushEntry(idx, Head(links), BacklinkEntry(page, linkType)),
                   Tail(links), page, linkType)

\* the body of the loop over pages, diagram links handled before markdown links
indexPage_mermaidFirst(idx, page) ==
    pushLinks(pushLinks(idx, extractMermaidLinks(page.content), page, "mermaid"),
              extractMarkdownLinks(page.content), page, "markdown")

\* the body of the loop over pages
indexPage(idx, page) ==
    pushLinks(pushLinks(idx, extractMarkdownLinks(page.content), page, "markdown"),
              extractMermaidLinks(page.content), page, "mermaid")

RECURSIVE indexPages(_, _)
indexPages(idx, ps) ==
    IF ps = <<>> THEN idx
    ELSE indexPages(indexPage(idx, Head(ps)), Tail(ps))

buildBacklinksIndex(ps) == indexPages(<<>>, ps)

\* index[normalized] || []
getBacklinksForPage(path, idx) ==
    LET found == Get(idx, normalizeInternalPath(path))
    IN  IF Truthy(found) THEN found ELSE Arr(<<>>)

(* Inputs *)

BaseP == <<"/", "p">>
BaseQ == <<"/", "q">>
Fragment == <<"f">>

\* the suffixes the normalization is meant to remove, alone and combined
EquivalentSuffixes ==
    {<<>>, <<".", "m", "d">>, <<"/">>, <<"#">> \o Fragment,
     <<".", "m", "d", "#">> \o Fragment, <<"/", "#">> \o Fragment}

markdownLink(href) == <<"[", "t", "]", "(">> \o href \o <<")">>

clickDirective(href) ==
    <<"c", "l", "i", "c", "k", SP, "A", SP, Quote>> \o href \o <<Quote>>

\* page i of the site
MkPage(i, text) ==
    [path |-> <<"/", Letter(i)>>, title |-> <<Letter(i)>>, content |-> text]

MkPages(texts) == [i \in 1..Len(texts) |-> MkPage(i, texts[i])]

\* links with every suffix, a relative link and an external link
KeySnippets ==
    {markdownLink(BaseP \o s) : s \in EquivalentSuffixes}
    \cup {markdownLink(BaseQ), markdownLink(<<".", "/", "p">>),
          markdownLink(<<"h">>),
          clickDirective(BaseP \o <<"/", "#">> \o Fragment),
          clickDirective(<<"h">>)}

\* links of both kinds to one target
SameTargetSnippets == {markdownLink(BaseP), clickDirective(BaseP)}

\* links of both kinds to one target, and a link to another target
OrderSnippets == SameTargetSnippets \cup {markdownLink(BaseQ)}

PageTexts(snippets, maxLinks) ==
    {Join(parts, <<NL>>) : parts \in SeqsUpTo(snippets, maxLinks)}

\* one page with one link of any form, one page with links to two targets,
\* or several pages with links to one target
BacklinkInputs(maxPages, maxLinks) ==
    {MkPages(<<text>>) : text \in PageTexts(KeySnippets, 1)}
    \cup {MkPages(<<text>>) : text \in PageTexts(OrderSnippets, maxLinks)}
    \cup {MkPages(texts) :
             texts \in SeqsUpTo(PageTexts(SameTargetSnippets, maxLinks), maxPages)}

LookupPaths ==
    {BaseP, BaseP \o <<".", "m", "d">>, BaseQ \o <<"/">>, <<"/", "z">>,
     <<"c", "o", "n", "s", "t", "r", "u", "c", "t", "o", "r">>}

(* The state machine *)

\* buildBacklinksIndex(pages)
BuildBacklinksIndex ==
    /\ "buildBacklinksIndex" \notin done
    /\ index' = buildBacklinksIndex(pages)
    /\ done' = done \cup {"buildBacklinksIndex"}
    /\ UNCHANGED <<pages, pagePath, backlinks, extractVars, diffVars, treeVars,
                   tocVars, headingVars, semverVars, versionVars, levelTreeVars,
                   mermaidVars, storeVars>>

\* getBacklinksForPage(path, index)
GetBacklinksForPage ==
    /\ "buildBacklinksIndex" \in done
    /\ "getBacklinksForPage" \notin done
    /\ \E path \in LookupPaths :
          /\ pagePath' = path
          /\ backlinks' = getBacklinksForPage(path, index)
    /\ done' = done \cup {"getBacklinksForPage"}
    /\ UNCHANGED <<pages, index, extractVars, diffVars, treeVars,
                   tocVars, headingVars, semverVars, versionVars, levelTreeVars,
                   mermaidVars, storeVars>>

InitBacklinks ==
    /\ pages \in BacklinkInputs(MaxPages, MaxLinks)
    /\ index = <<>>
    /\ pagePath = <<>>
    /\ backlinks = Undef
    /\ IdleExtract
    /\ IdleDiff
    /\ IdleTree
    /\ IdleToc
    /\ IdleHeading
    /\ IdleSemVer
    /\ IdleVersions
    /\ IdleLevelTree
    /\ IdleMermaid
    /\ IdleStore
    /\ done = {}

NextBacklinks == BuildBacklinksIndex \/ GetBacklinksForPage

SpecBacklinks == InitBacklinks /\ [][NextBacklinks]_vars

(* Properties of the backlinks index *)

IndexBuilt == "buildBacklinksIndex" \in done

LookedUp == "getBacklinksForPage" \in done

\* every match of either regular expression in a text
AllMatches(c) ==
    {linkMatches(c, 1)[i] : i \in 1..Len(linkMatches(c, 1))}
    \cup {clickMatches(c, 1)[i] : i \in 1..Len(clickMatches(c, 1))}

\* the index holds, under key, an entry whose source is page
IndexedUnder(key, page) ==
    \E b \in 1..Len(index) :
        /\ index[b].key = key
        /\ \E e \in 1..Len(index[b].entries) :
              index[b].entries[e].sourcePath = page.path

\* page links to base followed by suffix
LinksTo(page, base, suffix) ==
    \E m \in AllMatches(page.content) : m.href = base \o suffix

\* C11: a link to p followed by ".md", "/", "#f" or a combination of them
\* (".md#f", "/#f") is indexed under the key p.
C11_EquivalentHrefsShareKey ==
    IndexBuilt =>
        \A i \in 1..Len(pages) : \A base \in {BaseP, BaseQ} :
            \A suffix \in EquivalentSuffixes :
                LinksTo(pages[i], base, suffix) => IndexedUnder(base, pages[i])

\* flattening of a sequence of sequences
Flatten(seqs) == Concat(seqs)

\* the entries a page's links to key give, in the order the links occur in
\* the text, whatever their kind
EntriesByOccurrence(page, key) ==
    LET c == page.content
        links == internalLinkMatches(c)
        clicks == internalClickMatches(c)
        at(pos) ==
            IF \E i \in 1..Len(links) :
                  links[i].start = pos /\ normalizeInternalPath(links[i].href) = key
            THEN <<BacklinkEntry(page, "markdown")>>
            ELSE IF \E i \in 1..Len(clicks) :
                  clicks[i].start = pos /\ normalizeInternalPath(clicks[i].href) = key
            THEN <<BacklinkEntry(page, "mermaid")>>
            ELSE <<>>
    IN  Flatten([pos \in 1..Len(c) |-> at(pos)])

\* the entries a page's links to key give: the markdown links in the order
\* they occur, then the click directives in the order they occur
EntriesByKind(page, key) ==
    LET c == page.content
        links == SelectSeq(internalLinkMatches(c),
                           LAMBDA m : normalizeInternalPath(m.href) = key)
        clicks == SelectSeq(internalClickMatches(c),
                            LAMBDA m : normalizeInternalPath(m.href) = key)
    IN  [i \in 1..Len(links) |-> BacklinkEntry(page, "markdown")]
        \o [i \in 1..Len(clicks) |-> BacklinkEntry(page, "mermaid")]

\* C12: every bucket lists its entries page by page and, within a page, in
\* the order the links occur in the content, whatever the kind of link.
C12_BucketInOccurrenceOrder ==
    IndexBuilt =>
        \A b \in 1..Len(index) :
            index[b].entries =
                Flatten([i \in 1..Len(pages) |->
                            EntriesByOccurrence(pages[i], index[b].key)])

\* C12 (amended): every bucket lists its entries page by page and, within a
\* page, the entries of the markdown links in the order they occur, followed
\* by the entries of the click directives in the order they occur.
C12_BucketInPageThenKindOrder ==
    IndexBuilt =>
        \A b \in 1..Len(index) :
            index[b].entries =
                Flatten([i \in 1..Len(pages) |->
                            EntriesByKind(pages[i], index[b].key)])

\* a page whose click directive precedes a markdown link to the same target
\* has been indexed after another page that links to that target
C12_Witness ==
    /\ IndexBuilt
    /\ Len(pages) = 2
    /\ pages[1].content # <<>>
    /\ \E l \in 1..Len(internalLinkMatches(pages[2].content)) :
       \E c \in 1..Len(internalClickMatches(pages[2].content)) :
          /\ internalClickMatches(pages[2].content)[c].start
                < internalLinkMatches(pages[2].content)[l].start
          /\ internalClickMatches(pages[2].content)[c].href
                = internalLinkMatches(pages[2].content)[l].href
    /\ \E b \in 1..Len(index) : Len(index[b].entries) >= 3

\* C13: getBacklinksForPage returns the bucket stored under the normalized
\* path when there is one and an empty list otherwise, and never throws.
C13_LookupReturnsBucketOrEmpty ==
    LookedUp =>
        backlinks =
          IF \E b \in 1..Len(index) :
                index[b].key = normalizeInternalPath(pagePath)
          THEN Arr(OwnEntries(index, normalizeInternalPath(pagePath)))
          ELSE Arr(<<>>)

----------------------------------------------------------------------------
(* Table of contents: collectHeadings of src/pages/_app.tsx *)

MaxTocKids == 2  \* longest children list of a rendered node

UpperLetters ==
    <<"A", "B", "C", "D", "E", "F", "G", "H", "I", "J", "K", "L", "M",
      "N", "O", "P", "Q", "R", "S", "T", "U", "V", "W", "X", "Y", "Z">>

LowerLetters ==
    <<"a", "b", "c", "d", "e", "f", "g", "h", "i", "j", "k", "l", "m",
      "n", "o", "p", "q", "r", "s", "t", "u", "v", "w", "x", "y", "z">>

Digits == {"0", "1", "2", "3", "4", "5", "6", "7", "8", "9"}

\* String.prototype.toLowerCase
toLowerCase(s) ==
    [i \in 1..Len(s) |->
        IF \E k \in 1..Len(UpperLetters) : UpperLetters[k] = s[i]
        THEN LowerLetters[CHOOSE k \in 1..Len(UpperLetters) : UpperLetters[k] = s[i]]
        ELSE s[i]]

\* [a-z0-9]
IsSlugChar(ch) ==
    ch \in Digits \/ \E k \in 1..Len(LowerLetters) : LowerLetters[k] = ch

RECURSIVE dashRuns(_, _)
\* s.replace(/[^a-z0-9]+/g, "-"), from position i
dashRuns(s, i) ==
    IF i > Len(s) THEN <<>>
    ELSE IF IsSlugChar(s[i]) THEN <<s[i]>> \o dashRuns(s, i + 1)
    ELSE IF i > 1 /\ ~IsSlugChar(s[i - 1]) THEN dashRuns(s, i + 1)
    ELSE <<"-">> \o dashRuns(s, i + 1)

\* s.replace(/(^-|-$)/g, "")
stripDashes(s) ==
    LET t == IF s # <<>> /\ s[1] = "-" THEN Tail(s) ELSE s
    IN  IF t # <<>> /\ t[Len(t)] = "-" THEN SubSeq(t, 1, Len(t) - 1) ELSE t

generateSlug(id, title) ==
    <<"a", "d", "r", "-">> \o id \o <<"-">>
        \o stripDashes(dashRuns(toLowerCase(title), 1))

T_Heading == <<"H", "e", "a", "d", "i", "n", "g">>

\* typeof attrs.x === "string" for x = id, title, status, date, where
\* attrs = node.attributes || {}
isADRNode(n) ==
    LET attrs == Prop(n, "attributes")
    IN  /\ Prop(attrs, "id").t = "string"
        /\ Prop(attrs, "title").t = "string"
        /\ Prop(attrs, "status").t = "string"
        /\ Prop(attrs, "date").t = "string"

\* what a call leaves behind: the sections pushed so far, and whether an
\* exception is propagating
Sections(entries) == [thrown |-> FALSE, sections |-> entries]
Thrown(entries) == [thrown |-> TRUE, sections |-> entries]

\* children[0]
FirstChild(children) ==
    CASE children.t = "array" ->
            IF children.items = <<>> THEN Undef ELSE children.items[1]
      [] children.t = "string" ->
            IF children.s = <<>> THEN Undef ELSE Str(<<children.s[1]>>)
      [] OTHER -> Undef

\* { ...node.attributes, title }
HeadingEntry(n, title) ==
    LET attrs == Prop(n, "attributes")
        own == IF attrs.t = "object" THEN DOMAIN attrs.props ELSE {}
    IN  Obj([f \in own \cup {"title"} |->
                IF f = "title" THEN title ELSE attrs.props[f]])

\* { level: 3, id: generateSlug(id, title), title }
ADREntry(n) ==
    LET attrs == Prop(n, "attributes")
    IN  Obj([level |-> Num(3),
             id |-> Str(generateSlug(Prop(attrs, "id").s, Prop(attrs, "title").s)),
             title |-> Prop(attrs, "title")])

\* sections.unshift(entry)
push_front(acc, entry) == [acc EXCEPT !.sections = <<entry>> \o @]

\* sections.push(entry)
push(acc, entry) == [acc EXCEPT !.sections = Append(@, entry)]

\* the branch for standard headings
collectStandardHeading(n, acc) ==
    IF Prop(n, "name") # Str(T_Heading) THEN acc
    ELSE IF ~NotNullish(Prop(n, "children")) THEN Thrown(acc.sections)
    ELSE LET title == FirstChild(Prop(n, "children"))
         IN  IF title.t = "string" THEN push(acc, HeadingEntry(n, title)) ELSE acc

\* the values for (const child of children) visits; not an iterable: none
IterationOf(children) ==
    CASE children.t = "array" -> children.items
      [] children.t = "string" -> [i \in 1..Len(children.s) |-> Str(<<children.s[i]>>)]
      [] OTHER -> <<>>

IsIterable(children) == children.t \in {"array", "string"}

\* the traversal never returns early
returnsEarly_never(n) == FALSE

\* the early return that keeps the traversal out of a decision record
returnsEarly(n) == isADRNode(n)

RECURSIVE collectInto(_, _)
RECURSIVE collectChildren(_, _)
\* collectHeadings(node, sections)
collectInto(n, acc) ==
    IF acc.thrown \/ ~Truthy(n) THEN acc
    ELSE LET a1 == collectStandardHeading(n, acc)
             a2 == IF isADRNode(n) THEN push(a1, ADREntry(n)) ELSE a1
             children == Prop(n, "children")
         IN  IF a1.thrown THEN a1
             ELSE IF returnsEarly(n) THEN a2
             ELSE IF ~Truthy(children) THEN a2
             ELSE IF ~IsIterable(children) THEN Thrown(a2.sections)
             ELSE collectChildren(IterationOf(children), a2)

\* for (const child of node.children) collectHeadings(child, sections)
collectChildren(kids, acc) ==
    IF kids = <<>> THEN acc
    ELSE collectChildren(Tail(kids), collectInto(Head(kids), acc))

\* collectHeadings(node)
collectHeadings(n) == collectInto(n, Sections(<<>>))

(* Inputs *)

\* new Tag(name, attributes, children)
RenderedTag(name, attributes, children) ==
    Obj([name |-> Str(name), attributes |-> Obj(attributes),
         children |-> Arr(children)])

NoAttributes == [f \in {} |-> Undef]

HeadingAttributes == [id |-> Str(<<"h">>), level |-> Num(2)]

ADRAttributes(title) ==
    [id |-> Str(<<"1">>), title |-> Str(title),
     status |-> Str(<<"o", "k">>), date |-> Str(<<"d">>)]

HeadingOf(kids) == RenderedTag(T_Heading, HeadingAttributes, kids)
ParagraphOf(kids) == RenderedTag(T_p, NoAttributes, kids)
RecordOf(title, kids) == RenderedTag(<<"A", "D", "R">>, ADRAttributes(title), kids)

ADRTitles == {<<"U", "s", "e", " ", "D", "B", "!">>, <<"A">>}

\* the tags a document renders to: headings, decision records, paragraphs
TagsOver(kidSeqs) ==
    {HeadingOf(kids) : kids \in kidSeqs}
    \cup {RecordOf(title, kids) : title \in ADRTitles, kids \in kidSeqs}
    \cup {ParagraphOf(kids) : kids \in kidSeqs}

Scalars == {Str(<<"a">>), Str(<<"b">>)}

\* tags whose children are strings
Blocks1(maxKids) == TagsOver(SeqsUpTo(Scalars, maxKids))

\* tags whose children are strings and tags with at most one string child
Blocks2(maxKids) ==
    TagsOver(SeqsUpTo(Blocks1(1) \cup {Str(<<"a">>), Null}, maxKids))

\* the blocks of a document: headings, paragraphs and decision records, with
\* headings and decision records inside them
RootKids ==
    {HeadingOf(<<Str(<<"a">>)>>), HeadingOf(<<Str(<<"b">>)>>),
     ParagraphOf(<<Str(<<"a">>)>>),
     ParagraphOf(<<HeadingOf(<<Str(<<"b">>)>>)>>),
     ParagraphOf(<<RecordOf(<<"A">>, <<HeadingOf(<<Str(<<"a">>)>>)>>),
                   HeadingOf(<<Str(<<"b">>)>>)>>),
     RecordOf(<<"A">>, <<Str(<<"a">>)>>),
     RecordOf(<<"U", "s", "e", " ", "D", "B", "!">>,
              <<HeadingOf(<<Str(<<"b">>)>>)>>),
     RecordOf(<<"A">>, <<ParagraphOf(<<HeadingOf(<<Str(<<"a">>)>>)>>)>>)}

\* documents: an article or a decision record around blocks
Roots(maxKids) ==
    {RenderedTag(<<"a", "r", "t", "i", "c", "l", "e">>, NoAttributes, kids) :
        kids \in SeqsUpTo(RootKids, maxKids)}
    \cup {RecordOf(<<"A">>, kids) : kids \in SeqsUpTo(RootKids, maxKids)}

RenderedTrees(maxKids) == Blocks1(maxKids) \cup Blocks2(maxKids) \cup Roots(maxKids)

\* values that are not trees of Tag objects: scalars, and objects that lack
\* children or attributes or carry something else in their place
OtherShapes ==
    {Undef, Null, Str(<<>>), Str(<<"a">>), Num(0), Num(1), Bool(TRUE)}
    \cup {Obj([name |-> Str(T_Heading)]),
          Obj([name |-> Str(T_Heading), children |-> Null]),
          Obj([name |-> Str(T_Heading), children |-> Arr(<<>>)]),
          Obj([name |-> Str(T_Heading), children |-> Str(<<"a", "b">>)]),
          Obj([name |-> Str(T_Heading), children |-> Arr(<<Str(<<"a">>)>>)]),
          Obj([name |-> Str(T_p)]),
          Obj([name |-> Str(T_p), children |-> Str(<<"a", "b">>)]),
          Obj([name |-> Str(T_p), children |-> Num(1)]),
          Obj([attributes |-> Obj(ADRAttributes(<<"A">>))]),
          Obj([children |-> Arr(<<Obj([name |-> Str(T_Heading)])>>)]),
          Obj(NoAttributes)}

TocInputs(maxKids) == RenderedTrees(maxKids) \cup OtherShapes

(* The state machine *)

\* collectHeadings(pageProps.markdoc.content)
CollectHeadings ==
    /\ "collectHeadings" \notin done
    /\ toc' = collectHeadings(rendered)
    /\ done' = done \cup {"collectHeadings"}
    /\ UNCHANGED <<rendered, extractVars, diffVars, treeVars, backlinkVars,
                   headingVars, semverVars, versionVars, levelTreeVars,
                   mermaidVars, storeVars>>

InitToc ==
    /\ rendered \in TocInputs(MaxTocKids)
    /\ toc = Sections(<<>>)
    /\ IdleExtract
    /\ IdleDiff
    /\ IdleTree
    /\ IdleBacklinks
    /\ IdleHeading
    /\ IdleSemVer
    /\ IdleVersions
    /\ IdleLevelTree
    /\ IdleMermaid
    /\ IdleStore
    /\ done = {}

NextToc == CollectHeadings

SpecToc == InitToc /\ [][NextToc]_vars

(* Properties of the table of contents *)

TocDone == "collectHeadings" \in done

RECURSIVE IsRenderedTree(_)
\* a tree of Tag objects (a name, an attributes object, a children array)
\* and scalars, no heading carrying the attributes of a decision record
IsRenderedTree(v) ==
    \/ v.t \in {"string", "null"}
    \/ /\ v.t = "object"
       /\ DOMAIN v.props = {"name", "attributes", "children"}
       /\ v.props.name.t = "string"
       /\ v.props.attributes.t = "object"
       /\ v.props.children.t = "array"
       /\ ~(v.props.name = Str(T_Heading) /\ isADRNode(v))
       /\ \A i \in 1..Len(v.props.children.items) :
             IsRenderedTree(v.props.children.items[i])

RECURSIVE PathsOf(_)
\* the positions of the nodes of a tree: the child indices from the root
PathsOf(v) ==
    {<<>>} \cup
    (IF v.t = "object"
     THEN UNION {{<<i>> \o p : p \in PathsOf(v.props.children.items[i])} :
                    i \in 1..Len(v.props.children.items)}
     ELSE {})

RECURSIVE NodeAt(_, _)
NodeAt(v, path) ==
    IF path = <<>> THEN v
    ELSE NodeAt(v.props.children.items[Head(path)], Tail(path))

IsProperPrefix(p, q) == Len(p) < Len(q) /\ SubSeq(q, 1, Len(p)) = p

\* p comes before q in depth-first pre-order
Before(p, q) ==
    \/ IsProperPrefix(p, q)
    \/ \E k \in 1..Len(p) :
          /\ k <= Len(q)
          /\ SubSeq(p, 1, k - 1) = SubSeq(q, 1, k - 1)
          /\ p[k] < q[k]

IsRecordAt(path) == isADRNode(NodeAt(rendered, path))

\* a heading tag whose first child is a string
IsTitledHeadingAt(path) ==
    LET n == NodeAt(rendered, path)
    IN  /\ Prop(n, "name") = Str(T_Heading)
        /\ Prop(n, "children").items # <<>>
        /\ Prop(n, "children").items[1].t = "string"

InsideRecord(path) ==
    \E a \in PathsOf(rendered) : IsProperPrefix(a, path) /\ IsRecordAt(a)

\* the decision records that are not inside another decision record
OutermostRecords ==
    {p \in PathsOf(rendered) : IsRecordAt(p) /\ ~InsideRecord(p)}

\* the headings outside every decision record
FreeHeadings ==
    {p \in PathsOf(rendered) : IsTitledHeadingAt(p) /\ ~InsideRecord(p)}

\* the entry of the decision record at path
RecordEntryAt(path) ==
    LET attrs == NodeAt(rendered, path).props.attributes.props
    IN  Obj([level |-> Num(3), id |-> Str(generateSlug(attrs.id.s, attrs.title.s)),
             title |-> attrs.title])

\* the entry of the heading at path
HeadingEntryAt(path) ==
    LET n == NodeAt(rendered, path)
    IN  Obj([f \in DOMAIN n.props.attributes.props \cup {"title"} |->
                IF f = "title" THEN n.props.children.items[1]
                ELSE n.props.attributes.props[f]])

Occurrences(entry) ==
    Cardinality({i \in 1..Len(toc.sections) : toc.sections[i] = entry})

IsRecordEntry(entry) == Prop(entry, "level") = Num(3)

\* C14: every decision record of a rendered tree contributes exactly one
\* entry {level 3, id = generateSlug(id, title), title} and nothing inside a
\* decision record contributes an entry.
C14_RecordContributesOneEntry ==
    (TocDone /\ IsRenderedTree(rendered)) =>
        /\ ~toc.thrown
        /\ \A p \in OutermostRecords :
              Occurrences(RecordEntryAt(p)) =
                 Cardinality({q \in OutermostRecords :
                                 RecordEntryAt(q) = RecordEntryAt(p)})
        /\ Cardinality({i \in 1..Len(toc.sections) : IsRecordEntry(toc.sections[i])})
              = Cardinality(OutermostRecords)
        /\ Cardinality({i \in 1..Len(toc.sections) : ~IsRecordEntry(toc.sections[i])})
              = Cardinality(FreeHeadings)

\* a decision record with a titled heading below it has been collected
C14_Witness ==
    /\ TocDone
    /\ IsRenderedTree(rendered)
    /\ \E p \in OutermostRecords : \E q \in PathsOf(rendered) :
          IsProperPrefix(p, q) /\ IsTitledHeadingAt(q) /\ Len(q) >= Len(p) + 2
    /\ FreeHeadings # {}

\* the nodes that contribute an entry, and the entry of each
Contributors == OutermostRecords \cup FreeHeadings

EntryAt(path) ==
    IF IsRecordAt(path) THEN RecordEntryAt(path) ELSE HeadingEntryAt(path)

\* C15: the list returned by collectHeadings holds the entries in depth-first
\* pre-order of the rendered tree, one entry at most for every heading or
\* decision record.
C15_PreOrderOneEntryEach ==
    (TocDone /\ IsRenderedTree(rendered)) =>
        /\ Len(toc.sections) = Cardinality(Contributors)
        /\ \A i \in 1..Len(toc.sections) :
              \E p \in Contributors :
                 /\ Cardinality({q \in Contributors : Before(q, p)}) = i - 1
                 /\ toc.sections[i] = EntryAt(p)

\* headings with different titles at different depths, and a decision
\* record between them, have been collected
C15_Witness ==
    /\ TocDone
    /\ IsRenderedTree(rendered)
    /\ Len(toc.sections) >= 3
    /\ \E p, q \in FreeHeadings :
          /\ Len(p) # Len(q)
          /\ HeadingEntryAt(p) # HeadingEntryAt(q)
          /\ \E r \in OutermostRecords : Before(p, r) /\ Before(r, q)

\* C16: collectHeadings returns a list, possibly empty, for a node of any
\* shape and never throws.
C16_CollectHeadingsNeverThrows == TocDone => ~toc.thrown

----------------------------------------------------------------------------
(* Heading ids: heading.transform of src/markdoc/tags/adr.markdoc.ts *)

MaxHeadings == 2 \* most headings of one document
MaxDocs == 2     \* most documents transformed by one process

RECURSIVE DecStr(_)
\* the decimal numeral of a natural number, as a template literal prints it
DecStr(n) ==
    IF n < 10 THEN <<Digit(n)>> ELSE DecStr(n \div 10) \o <<Digit(n % 10)>>

\* attributes.id && typeof attributes.id === "string"
hasExplicitId(attributes) ==
    Truthy(Prop(attributes, "id")) /\ Prop(attributes, "id").t = "string"

\* generateID(children, attributes): the id and the counter it leaves
generateID(attributes, counter) ==
    IF hasExplicitId(attributes)
    THEN [id |-> Prop(attributes, "id").s, counter |-> counter]
    ELSE [id |-> <<"h", "e", "a", "d", "i", "n", "g", "-">> \o DecStr(counter),
          counter |-> counter + 1]

\* if (attributes.level === 1) headingCounter = 0
resetCounter(attributes, counter) ==
    IF Prop(attributes, "level") = Num(1) THEN 0 ELSE counter

\* heading.transform: the id of the returned Tag and the counter it leaves
headingTransform(attributes, counter) ==
    generateID(attributes, resetCounter(attributes, counter))

RECURSIVE transformHeadings(_, _)
\* the ids heading.transform gives to the headings of a document, in order
transformHeadings(headings, counter) ==
    IF headings = <<>> THEN <<>>
    ELSE LET r == headingTransform(Head(headings), counter)
         IN  <<r.id>> \o transformHeadings(Tail(headings), r.counter)

(* Inputs *)

\* attributes of a heading node: a title (level 1) or a section heading,
\* without an id or with the id x
HeadingInputs ==
    {Obj([level |-> Num(1)]), Obj([level |-> Num(2)]),
     Obj([level |-> Num(2), id |-> Str(<<"x">>)])}

(* The state machine *)

\* heading.transform(node, config) on the next heading of the document
HeadingTransform ==
    /\ Len(renderedDocs) < MaxDocs
    /\ Len(docHeadings) < MaxHeadings
    /\ \E attributes \in HeadingInputs :
          LET r == headingTransform(attributes, headingCounter)
          IN  /\ headingCounter' = r.counter
              /\ docIds' = Append(docIds, r.id)
              /\ docHeadings' = Append(docHeadings, attributes)
    /\ done' = done \cup {"heading.transform"}
    /\ UNCHANGED <<renderedDocs, extractVars, diffVars, treeVars, backlinkVars,
                   tocVars, semverVars, versionVars, levelTreeVars,
                   mermaidVars, storeVars>>

\* the transform of one document ends; the next one starts in the same process
NextDocument ==
    /\ Len(renderedDocs) < MaxDocs
    /\ renderedDocs' = Append(renderedDocs, [headings |-> docHeadings, ids |-> docIds])
    /\ docHeadings' = <<>>
    /\ docIds' = <<>>
    /\ UNCHANGED <<headingCounter, done, extractVars, diffVars, treeVars,
                   backlinkVars, tocVars, semverVars, versionVars, levelTreeVars,
                   mermaidVars, storeVars>>

InitHeading ==
    /\ headingCounter = 0
    /\ docIds = <<>>
    /\ docHeadings = <<>>
    /\ renderedDocs = <<>>
    /\ IdleExtract
    /\ IdleDiff
    /\ IdleTree
    /\ IdleBacklinks
    /\ IdleToc
    /\ IdleSemVer
    /\ IdleVersions
    /\ IdleLevelTree
    /\ IdleMermaid
    /\ IdleStore
    /\ done = {}

NextHeading == HeadingTransform \/ NextDocument

SpecHeading == InitHeading /\ [][NextHeading]_vars

(* Properties of the heading ids *)

\* C17: the ids of the headings of a document are those a process that has
\* transformed no other document gives them: the counter starts every
\* document at zero.
C17_IdsDependOnDocumentOnly ==
    \A d \in 1..Len(renderedDocs) :
        renderedDocs[d].ids = transformHeadings(renderedDocs[d].headings, 0)

\* C18: within one document, the ids generated for headings without an
\* explicit id are pairwise distinct.
C18_GeneratedIdsDistinct ==
    \A i, j \in 1..Len(docIds) :
        (i # j /\ ~hasExplicitId(docHeadings[i]) /\ ~hasExplicitId(docHeadings[j]))
            => docIds[i] # docIds[j]

----------------------------------------------------------------------------
(* Version tags: src/lib/versioning.ts *)

MaxVer == 1      \* largest small version component drawn

RECURSIVE parseInt(_)
\* parseInt(digits, 10) of a non-empty run of decimal digits
parseInt(digits) ==
    LET last == CHOOSE d \in 0..9 : Digit(d) = digits[Len(digits)]
    IN  IF Len(digits) = 1 THEN last
        ELSE 10 * parseInt(SubSeq(digits, 1, Len(digits) - 1)) + last

\* an optional group (?:\.(\d+))? tried at position i: where the match
\* continues, and the digits captured
optionalComponent(ver, i) ==
    IF i <= Len(ver) /\ ver[i] = "." /\ RunEnd(ver, i + 1, Digits) > i + 1
    THEN [end |-> RunEnd(ver, i + 1, Digits), captured |-> TRUE,
          digits |-> SubSeq(ver, i + 1, RunEnd(ver, i + 1, Digits) - 1)]
    ELSE [end |-> i, captured |-> FALSE, digits |-> <<>>]

\* match[k] ?? "1"
captureOrDefault_one(group) ==
    IF group.captured THEN group.digits ELSE <<"1">>

\* match[k] ?? "0"
captureOrDefault(group) ==
    IF group.captured THEN group.digits ELSE <<"0">>

\* tag.match(/^v?(\d+)(?:\.(\d+))?(?:\.(\d+))?$/) and the object built from
\* the match; Null when there is no match
parseSemVer(ver) ==
    LET start == IF ver # <<>> /\ ver[1] = "v" THEN 2 ELSE 1
        e1 == RunEnd(ver, start, Digits)
        g2 == optionalComponent(ver, e1)
        g3 == optionalComponent(ver, g2.end)
    IN  IF e1 = start \/ g3.end # Len(ver) + 1 THEN Null
        ELSE [t |-> "object",
              major |-> parseInt(SubSeq(ver, start, e1 - 1)),
              minor |-> parseInt(captureOrDefault(g2)),
              patch |-> parseInt(captureOrDefault(g3)),
              raw |-> ver]

\* collation order of the characters of a tag: punctuation, digits, letters
CollationOrder ==
    <<".", "0", "1", "2", "3", "4", "5", "6", "7", "8", "9", "v", "x">>

CollationRank(ch) == CHOOSE k \in 1..Len(CollationOrder) : CollationOrder[k] = ch

RECURSIVE localeCompare(_, _)
\* a.localeCompare(b) on strings of these characters
localeCompare(a, b) ==
    IF a = <<>> /\ b = <<>> THEN 0
    ELSE IF a = <<>> THEN -1
    ELSE IF b = <<>> THEN 1
    ELSE IF CollationRank(a[1]) < CollationRank(b[1]) THEN -1
    ELSE IF CollationRank(a[1]) > CollationRank(b[1]) THEN 1
    ELSE localeCompare(Tail(a), Tail(b))

compareSemVer(a, b) ==
    LET semA == parseSemVer(a)
        semB == parseSemVer(b)
    IN  IF ~Truthy(semA) \/ ~Truthy(semB) THEN localeCompare(a, b)
        ELSE IF semA.major - semB.major # 0 THEN semA.major - semB.major
        ELSE IF semA.minor - semB.minor # 0 THEN semA.minor - semB.minor
        ELSE semA.patch - semB.patch

\* the tag is returned as it is
formatVersion_unchanged(ver) == ver

\* `v${semver.major}.${semver.minor}.${semver.patch}`, or the tag itself
formatVersion(ver) ==
    LET semver == parseSemVer(ver)
    IN  IF ~Truthy(semver) THEN ver
        ELSE <<"v">> \o DecStr(semver.major) \o <<".">> \o DecStr(semver.minor)
                 \o <<".">> \o DecStr(semver.patch)

(* Inputs *)

\* version components: the small ones, and 9 and 10
Components(maxVer) == (0..maxVer) \cup {9, 10}

\* the tags v?N(.N)?(.N)?: a prefix or none, and one to three components
VersionShapes(maxVer) ==
    {[v |-> v, nums |-> nums] :
        v \in BOOLEAN,
        nums \in {s \in SeqsUpTo(Components(maxVer), 3) : s # <<>>}}

TagOf(shape) ==
    (IF shape.v THEN <<"v">> ELSE <<>>)
        \o Join([i \in 1..Len(shape.nums) |-> DecStr(shape.nums[i])], <<".">>)

\* tags the pattern rejects
OtherTags ==
    {<<>>, <<"v">>, <<"x">>, <<"1", ".">>, <<"v", "1", ".", "x">>,
     <<"1", ".", "0", ".", "0", ".", "0">>, <<".", "1">>, <<"v", "v", "1">>}

TagInputs(maxVer) == {TagOf(shape) : shape \in VersionShapes(maxVer)} \cup OtherTags

(* The state machine *)

\* compareSemVer(tagA, tagB)
CompareSemVer ==
    /\ "compareSemVer" \notin done
    /\ comparison' = compareSemVer(tagA, tagB)
    /\ done' = done \cup {"compareSemVer"}
    /\ UNCHANGED <<tagA, tagB, formatted, extractVars, diffVars, treeVars,
                   backlinkVars, tocVars, headingVars, versionVars, levelTreeVars,
                   mermaidVars, storeVars>>

\* formatVersion(tagA) and formatVersion(tagB)
FormatVersion ==
    /\ "formatVersion" \notin done
    /\ formatted' = <<formatVersion(tagA), formatVersion(tagB)>>
    /\ done' = done \cup {"formatVersion"}
    /\ UNCHANGED <<tagA, tagB, comparison, extractVars, diffVars, treeVars,
                   backlinkVars, tocVars, headingVars, versionVars, levelTreeVars,
                   mermaidVars, storeVars>>

InitSemVer ==
    /\ tagA \in TagInputs(MaxVer)
    /\ tagB \in TagInputs(MaxVer)
    /\ comparison = 0
    /\ formatted = <<>>
    /\ IdleExtract
    /\ IdleDiff
    /\ IdleTree
    /\ IdleBacklinks
    /\ IdleToc
    /\ IdleHeading
    /\ IdleVersions
    /\ IdleLevelTree
    /\ IdleMermaid
    /\ IdleStore
    /\ done = {}

NextSemVer == CompareSemVer \/ FormatVersion

SpecSemVer == InitSemVer /\ [][NextSemVer]_vars

(* Properties of the version comparison *)

Compared == "compareSemVer" \in done

\* C19: compareSemVer returns -1, 0 or 1 for every pair of tags.
C19_ResultIsMinusOneZeroOrOne == Compared => comparison \in {-1, 0, 1}

\* (major, minor, patch) of a tag of the given shape, missing ones being 0
TripleOf(shape) ==
    [k \in 1..3 |-> IF k <= Len(shape.nums) THEN shape.nums[k] ELSE 0]

\* lexicographic order of triples
TripleLess(s, t) ==
    \E k \in 1..3 : s[k] < t[k] /\ \A j \in 1..(k - 1) : s[j] = t[j]

\* the triple of every tag of the form v?N(.N)?(.N)?
TripleOfTag ==
    [t \in {TagOf(shape) : shape \in VersionShapes(MaxVer)} |->
        TripleOf(CHOOSE shape \in VersionShapes(MaxVer) : TagOf(shape) = t)]

\* C20: for two tags of the form v?N(.N)?(.N)?, compareSemVer is negative,
\* zero or positive as (major, minor, patch) of the first is below, equal to
\* or above that of the second in lexicographic order, a missing minor or
\* patch counting as 0.
C20_SignIsLexicographicOrder ==
    (Compared /\ tagA \in DOMAIN TripleOfTag /\ tagB \in DOMAIN TripleOfTag) =>
        LET ta == TripleOfTag[tagA]
            tb == TripleOfTag[tagB]
        IN  /\ (comparison < 0) = TripleLess(ta, tb)
            /\ (comparison > 0) = TripleLess(tb, ta)
            /\ (comparison = 0) = (ta = tb)

\* v1.9.0 has been compared with v1.10.0 and found smaller
C20_Witness ==
    /\ Compared
    /\ tagA = <<"v", "1", ".", "9", ".", "0">>
    /\ tagB = <<"v", "1", ".", "1", "0", ".", "0">>
    /\ comparison < 0

Formatted == "formatVersion" \in done

\* v{major}.{minor}.{patch} of a triple
Rendered(triple) ==
    <<"v">> \o DecStr(triple[1]) \o <<".">> \o DecStr(triple[2])
        \o <<".">> \o DecStr(triple[3])

\* C21: two parseable tags that compare as 0 format to the same string
\* v{major}.{minor}.{patch}; formatting a formatted tag changes nothing; a
\* tag the pattern rejects is returned unchanged.
C21_FormatDependsOnTripleOnly ==
    Formatted =>
        /\ (Compared /\ comparison = 0 /\ tagA \in DOMAIN TripleOfTag
               /\ tagB \in DOMAIN TripleOfTag) =>
              /\ formatted[1] = formatted[2]
              /\ formatted[1] = Rendered(TripleOfTag[tagA])
        /\ formatVersion(formatted[1]) = formatted[1]
        /\ formatVersion(formatted[2]) = formatted[2]
        /\ tagA \in OtherTags => formatted[1] = tagA
        /\ tagB \in OtherTags => formatted[2] = tagB

\* v1 and 1.0.0 have been compared, found equal, and formatted
C21_Witness ==
    /\ Formatted
    /\ Compared
    /\ comparison = 0
    /\ tagA = <<"v", "1">>
    /\ tagB = <<"1", ".", "0", ".", "0">>
    /\ formatted[1] = <<"v", "1", ".", "0", ".", "0">>


(***************************************************************************)
(* Version lists: getGitTags, getDocsVersions, getOpenAPIVersions and      *)
(* getVersions of src/unnamed/part_010, versionSlug and sortVersions of    *)
(* src/lib/versioning.ts                                                   *)
(***************************************************************************)

MaxTags == 2     \* most tags in the repository
MaxFiles == 2    \* most entries of the public/openapi directory
MaxSort == 3     \* most versions handed to sortVersions

\* tag.startsWith("v") ? tag : `v${tag}`
versionSlug(ver) == IF StartsWith(ver, <<"v">>) THEN ver ELSE <<"v">> \o ver

\* the comparator (a, b) => compareSemVer(b.tag, a.tag)
newestFirst(a, b) == compareSemVer(b.tag, a.tag)

Sign(n) == IF n < 0 THEN -1 ELSE IF n > 0 THEN 1 ELSE 0

\* the comparator is a consistent comparator for the elements of items, as
\* Array.prototype.sort requires for a defined sort order
IsConsistentOn(items) ==
    LET elems == {items[i] : i \in 1..Len(items)}
    IN  /\ \A a, b \in elems : Sign(newestFirst(a, b)) = -Sign(newestFirst(b, a))
        /\ \A a, b, c \in elems :
               newestFirst(a, b) <= 0 /\ newestFirst(b, c) <= 0
                   => newestFirst(a, c) <= 0

RECURSIVE insertStable(_, _)
insertStable(sorted, x) ==
    IF sorted = <<>> THEN <<x>>
    ELSE IF newestFirst(Head(sorted), x) > 0 THEN <<x>> \o sorted
    ELSE <<Head(sorted)>> \o insertStable(Tail(sorted), x)

RECURSIVE stableSort(_)
stableSort(items) ==
    IF items = <<>> THEN <<>>
    ELSE insertStable(stableSort(SubSeq(items, 1, Len(items) - 1)), items[Len(items)])

PermutationsOf(items) ==
    LET n == Len(items)
        bijections == {p \in [1..n -> 1..n] : \A i, j \in 1..n : p[i] = p[j] => i = j}
    IN  {[i \in 1..n |-> items[p[i]]] : p \in bijections}

\* items.sort((a, b) => compareSemVer(b.tag, a.tag)): the stable sorted
\* order when the comparator is consistent on the items, and an order the
\* implementation chooses when it is not
sortOutcomes(items) ==
    IF IsConsistentOn(items) THEN {stableSort(items)} ELSE PermutationsOf(items)

\* the object built from one line of the git output
gitTagInfo(line) ==
    LET parts == Split(line, "|")
    IN  [tag |-> parts[1],
         commit |-> IF Len(parts) >= 2 THEN parts[2] ELSE Undef,
         date |-> IF Len(parts) >= 3 THEN Split(parts[3], SP)[1] ELSE <<>>]

\* getGitTags: [] when execSync throws, else the parseable tags of the output
getGitTags(repo) ==
    IF ~repo.available THEN <<>>
    ELSE LET nonEmpty(line) == line # <<>>
             parseable(info) == parseSemVer(info.tag) # Null
             lines == SelectSeq(Split(Trim(repo.output), NL), nonEmpty)
         IN  SelectSeq([i \in 1..Len(lines) |-> gitTagInfo(lines[i])], parseable)

mainVersion ==
    [tag |-> <<"m", "a", "i", "n">>, name |-> <<"D", "e", "v">>,
     slug |-> <<"m", "a", "i", "n">>, isLatest |-> TRUE]

\* the configurations getDocsVersions can return for a repository
getDocsVersions(repo) ==
    LET tags == getGitTags(repo)
    IN  IF Len(tags) = 0
        THEN {[current |-> mainVersion.tag, versions |-> <<mainVersion>>]}
        ELSE {LET latestTag == sorted[1].tag
              IN  [current |-> latestTag,
                   versions |->
                       [i \in 1..Len(sorted) |->
                           [tag |-> sorted[i].tag,
                            name |-> formatVersion(sorted[i].tag),
                            slug |-> versionSlug(sorted[i].tag),
                            commit |-> sorted[i].commit,
                            date |-> sorted[i].date,
                            isLatest |-> sorted[i].tag = latestTag]]]
              : sorted \in sortOutcomes(tags)}

Yaml == <<".", "y", "a", "m", "l">>

RECURSIVE replaceFirst(_, _)
\* filename.replace(pattern, ""): the first occurrence is removed
replaceFirst(s, pattern) ==
    IF Len(s) < Len(pattern) THEN s
    ELSE IF StartsWith(s, pattern) THEN SubSeq(s, Len(pattern) + 1, Len(s))
    ELSE <<Head(s)>> \o replaceFirst(Tail(s), pattern)

legacyVersion ==
    [tag |-> <<"v", "1">>, name |-> <<"v", "1", ".", "0", ".", "0">>,
     slug |-> <<"v", "1">>, isLatest |-> TRUE]

\* versions[0].isLatest = true
markFirstLatest(list) ==
    [i \in 1..Len(list) |-> IF i = 1 THEN [list[i] EXCEPT !.isLatest = TRUE] ELSE list[i]]

\* the configurations getOpenAPIVersions can return for a directory state
getOpenAPIVersions(dir) ==
    IF ~dir.exists
    THEN IF dir.legacy
         THEN {[current |-> legacyVersion.tag, versions |-> <<legacyVersion>>]}
         ELSE {[current |-> <<>>, versions |-> <<>>]}
    ELSE LET isYaml(f) == EndsWith(f, Yaml)
             parseable(v) == Truthy(parseSemVer(v.tag))
             files == SelectSeq(dir.files, isYaml)
             mapped == [i \in 1..Len(files) |->
                           LET ver == replaceFirst(files[i], Yaml)
                           IN  [tag |-> ver, name |-> formatVersion(ver),
                                slug |-> versionSlug(ver), isLatest |-> FALSE]]
         IN  {IF Len(list) = 0 THEN [current |-> <<>>, versions |-> <<>>]
              ELSE [current |-> list[1].tag, versions |-> markFirstLatest(list)]
              : list \in sortOutcomes(SelectSeq(mapped, parseable))}

\* getVersions(source, cwd)
getVersions(source, repo, dir) ==
    IF source = "git" THEN getDocsVersions(repo) ELSE getOpenAPIVersions(dir)

\* [...versions].sort((a, b) => compareSemVer(b.tag, a.tag))
sortVersions(list) == sortOutcomes(list)

(* Inputs *)

\* tag names of a repository that match v*, in the refname order git lists
\* them in; a ref name may hold a "|"
TagNames ==
    <<<<"v", "0">>, <<"v", "1">>, <<"v", "1", ".", "0", ".", "0">>,
      <<"v", "1", "0">>, <<"v", "1", "|", "x">>, <<"v", "9">>, <<"v", "x">>>>

RECURSIVE SubSeqsOf(_, _)
\* the subsequences of s with at most n elements
SubSeqsOf(s, n) ==
    IF s = <<>> \/ n = 0 THEN {<<>>}
    ELSE SubSeqsOf(Tail(s), n)
             \cup {<<Head(s)>> \o r : r \in SubSeqsOf(Tail(s), n - 1)}

\* one line of output per tag: name|objectname|creatordate
gitLine(name) == name \o <<"|", "c", "|", "d", " ", "t">> \o <<NL>>

gitOutput(names) == Concat([i \in 1..Len(names) |-> gitLine(names[i])])

GitRepos(maxTags) ==
    {NoGit} \cup {[available |-> TRUE, output |-> gitOutput(names)] :
                     names \in SubSeqsOf(TagNames, maxTags)}

FileNames ==
    {<<"v", "1">> \o Yaml, <<"1", ".", "0", ".", "0">> \o Yaml,
     <<"v", "9">> \o Yaml, <<"1", "0">> \o Yaml, <<"x">> \o Yaml,
     <<"v", "1">> \o Yaml \o Yaml, <<"v", "1", ".", "j">>}

\* the entries of a directory, in the order readdirSync lists them
Directories(maxFiles) ==
    {NoDir, [exists |-> FALSE, legacy |-> TRUE, files |-> <<>>]}
        \cup {[exists |-> TRUE, legacy |-> legacy, files |-> files] :
                 legacy \in BOOLEAN,
                 files \in {s \in SeqsUpTo(FileNames, maxFiles) :
                               \A i, j \in 1..Len(s) : s[i] = s[j] => i = j}}

\* tags of the versions handed to sortVersions
SortTags ==
    {<<"v", "9">>, <<"v", "1", "0">>, <<"v", "1", "x">>, <<"v", "1">>}

VersionOf(ver) ==
    [tag |-> ver, name |-> formatVersion(ver), slug |-> versionSlug(ver),
     isLatest |-> FALSE]

VersionLists(maxSort) ==
    {[i \in 1..Len(s) |-> VersionOf(s[i])] :
        s \in {r \in SeqsUpTo(SortTags, maxSort) :
                  \A i, j \in 1..Len(r) : r[i] = r[j] => i = j}}

(* The state machine *)

\* getVersions(versionSource)
GetVersions ==
    /\ "getVersions" \notin done
    /\ versionConfig' \in getVersions(versionSource, gitRepo, openapiDir)
    /\ done' = done \cup {"getVersions"}
    /\ UNCHANGED <<extractVars, diffVars, treeVars, backlinkVars, tocVars,
                   headingVars, semverVars, versionSource, gitRepo, openapiDir,
                   versions, sortedVersions, levelTreeVars, mermaidVars,
                   storeVars>>

\* sortVersions(versions)
SortVersions ==
    /\ "sortVersions" \notin done
    /\ sortedVersions' \in sortVersions(versions)
    /\ done' = done \cup {"sortVersions"}
    /\ UNCHANGED <<extractVars, diffVars, treeVars, backlinkVars, tocVars,
                   headingVars, semverVars, versionSource, gitRepo, openapiDir,
                   versionConfig, versions, levelTreeVars, mermaidVars,
                   storeVars>>

InitVersions ==
    /\ IdleExtract
    /\ IdleDiff
    /\ IdleTree
    /\ IdleBacklinks
    /\ IdleToc
    /\ IdleHeading
    /\ IdleSemVer
    /\ \/ /\ versionSource = "git"
          /\ gitRepo \in GitRepos(MaxTags)
          /\ openapiDir = NoDir
          /\ versions = <<>>
       \/ /\ versionSource = "openapi"
          /\ gitRepo = NoGit
          /\ openapiDir \in Directories(MaxFiles)
          /\ versions = <<>>
       \/ /\ versionSource = "git"
          /\ gitRepo = NoGit
          /\ openapiDir = NoDir
          /\ versions \in VersionLists(MaxSort)
    /\ versionConfig = NoConfig
    /\ sortedVersions = <<>>
    /\ IdleLevelTree
    /\ IdleMermaid
    /\ IdleStore
    /\ done = {}

NextVersions == GetVersions \/ SortVersions

SpecVersions == InitVersions /\ [][NextVersions]_vars

(* Claims *)

GotVersions == "getVersions" \in done

\* C22: a returned version list that is not empty is in descending
\* compareSemVer order, exactly one entry has isLatest = true, that entry is
\* the first one and current is its tag; an empty list comes with current = ""
C22_VersionConfigInvariant ==
    GotVersions =>
        LET list == versionConfig.versions
        IN  IF list = <<>> THEN versionConfig.current = <<>>
            ELSE /\ \A i \in 1..(Len(list) - 1) :
                        compareSemVer(list[i].tag, list[i + 1].tag) >= 0
                 /\ list[1].isLatest
                 /\ \A i \in 2..Len(list) : ~list[i].isLatest
                 /\ versionConfig.current = list[1].tag


SortedVersions == "sortVersions" \in done

\* C28: compareSemVer is a consistent ordering over the tags handed to
\* sortVersions, parseable or not (the sign flips when the arguments are
\* swapped, and <= 0 is transitive), and sortVersions returns the same order
\* for every permutation of its input
C28_ConsistentOrdering ==
    SortedVersions =>
        /\ IsConsistentOn(versions)
        /\ \A p \in PermutationsOf(versions) : sortVersions(p) = {sortedVersions}

----------------------------------------------------------------------------
(* The two parseFileTree variants: components/CodeBlock.tsx and            *)
(* src/unnamed/part_017                                                    *)

MaxVariantLines == 3     \* most lines of a text handed to both parsers
MaxVariantIndent == 4    \* deepest indentation of such a line

\* (line.match(/^\s*/)?.[0].length ?? 0) / 2, kept as the number of halves
levelOf(line) == [halves |-> Len(line) - Len(TrimStart(line))]

\* the slash is kept in the name and no node is a folder
newLevelNode_plain(name, level) ==
    [name |-> name, isFolder |-> FALSE, level |-> level, children |-> Undef]

\* the object literal assigned to node; the children property is left out
newLevelNode(name, level) ==
    [name |-> IF endsWithSlash(name) THEN SubSeq(name, 1, Len(name) - 1) ELSE name,
     isFolder |-> endsWithSlash(name),
     level |-> level,
     children |-> Undef]

RECURSIVE popLevelStack(_, _)
\* while (stack.length > 0 && stack[stack.length - 1].level >= level) stack.pop()
popLevelStack(stack, level) ==
    IF stack # <<>> /\ stack[Len(stack)].level.halves >= level.halves
    THEN popLevelStack(SubSeq(stack, 1, Len(stack) - 1), level)
    ELSE stack

\* the children list is replaced by the new node alone
pushChild_replace(nodes, parent, id) ==
    [nodes EXCEPT ![parent].children = Arr(<<id>>)]

\* if (!parent.children) parent.children = []; parent.children.push(node)
pushChild(nodes, parent, id) ==
    LET present == IF Truthy(nodes[parent].children)
                   THEN nodes[parent].children.items ELSE <<>>
    IN  [nodes EXCEPT ![parent].children = Arr(Append(present, id))]

\* one iteration of the loop over the lines
parseLevelLine(st, line) ==
    IF Trim(line) = <<>> THEN st
    ELSE LET level == levelOf(line)
             id == Len(st.nodes) + 1
             created == Append(st.nodes, newLevelNode(Trim(line), level))
             stack == popLevelStack(st.stack, level)
         IN  [nodes |-> IF stack = <<>> THEN created
                        ELSE pushChild(created, stack[Len(stack)].node, id),
              root |-> IF stack = <<>> THEN Append(st.root, id) ELSE st.root,
              stack |-> Append(stack, [node |-> id, level |-> level])]

RECURSIVE parseLevelLines(_, _)
parseLevelLines(st, lines) ==
    IF lines = <<>> THEN st
    ELSE parseLevelLines(parseLevelLine(st, Head(lines)), Tail(lines))

\* parseFileTree of part_017
parseFileTreeLevel(text) ==
    parseLevelLines([nodes |-> <<>>, root |-> <<>>, stack |-> <<>>], splitLines(text))

(* The state machine *)

\* parseFileTree(content) of part_017
ParseFileTreeLevel ==
    /\ "parseFileTreeLevel" \notin done
    /\ LET tree == parseFileTreeLevel(content)
       IN  /\ levelNodes' = tree.nodes
           /\ levelRoot' = tree.root
    /\ done' = done \cup {"parseFileTreeLevel"}
    /\ UNCHANGED <<extractVars, diffVars, treeVars, backlinkVars, tocVars,
                   headingVars, semverVars, versionVars, mermaidVars, storeVars>>

InitTreeVariants ==
    /\ content \in TreeInputs(MaxVariantLines, MaxVariantIndent)
    /\ treeNodes = <<>>
    /\ treeRoot = <<>>
    /\ levelNodes = <<>>
    /\ levelRoot = <<>>
    /\ IdleExtract
    /\ IdleDiff
    /\ IdleBacklinks
    /\ IdleToc
    /\ IdleHeading
    /\ IdleSemVer
    /\ IdleVersions
    /\ IdleMermaid
    /\ IdleStore
    /\ done = {}

NextTreeVariants == ParseFileTree \/ ParseFileTreeLevel

SpecTreeVariants == InitTreeVariants /\ [][NextTreeVariants]_vars

(* Claims *)

BothParsed == TreeDone /\ "parseFileTreeLevel" \in done

\* the children of node n of a forest, none when the list is absent
ChildIds(nodes, n) ==
    IF nodes[n].children.t = "array" THEN nodes[n].children.items ELSE <<>>

\* the two forests hold the same nodes (a node is the line it was made
\* from), with the same names and isFolder flags, the same roots and the
\* same children under every node
SameForest ==
    /\ Len(treeNodes) = Len(levelNodes)
    /\ treeRoot = levelRoot
    /\ \A n \in 1..Len(treeNodes) :
           /\ treeNodes[n].name = levelNodes[n].name
           /\ treeNodes[n].isFolder = levelNodes[n].isFolder
           /\ ChildIds(treeNodes, n) = ChildIds(levelNodes, n)

\* every line is indented by a multiple of two spaces
TwoSpaceIndented ==
    \A i \in 1..Len(MeasuredLines) :
        NonBlank(MeasuredLines[i]) =>
            /\ LeadingWs(MeasuredLines[i]) % 2 = 0
            /\ \A k \in 1..LeadingWs(MeasuredLines[i]) : MeasuredLines[i][k] = SP

NoLineUnderFile ==
    \A i \in 1..Len(MeasuredLines) :
        NonBlank(MeasuredLines[i]) /\ LessIndentedBefore(MeasuredLines, i) # {}
            => IsFolderLine(MeasuredLines[Max(LessIndentedBefore(MeasuredLines, i))])

RECURSIVE PreOrder(_, _)
\* the depth-first pre-order traversal of the trees rooted at ids
PreOrder(nodes, ids) ==
    IF ids = <<>> THEN <<>>
    ELSE <<Head(ids)>> \o PreOrder(nodes, ChildIds(nodes, Head(ids)))
             \o PreOrder(nodes, Tail(ids))

\* the non-blank lines of the input, in order
NonBlankLines == SelectSeq(MeasuredLines, NonBlank)

\* the node made from line i: nodes are created in line order
IdOfLine(i) == Cardinality({j \in 1..i : NonBlank(MeasuredLines[j])})

\* the forest holds one node per non-blank line, none dropped and none
\* duplicated, and its pre-order traversal lists them in line order
Conserves(nodes, root) ==
    /\ Len(nodes) = Len(NonBlankLines)
    /\ \A n \in 1..Len(nodes) :
           /\ nodes[n].name = LineName(NonBlankLines[n])
           /\ nodes[n].isFolder = IsFolderLine(NonBlankLines[n])
    /\ PreOrder(nodes, root) = [n \in 1..Len(nodes) |-> n]

InRoot(root, n) == \E k \in 1..Len(root) : root[k] = n

\* the lines that have no enclosing open folder are roots
RootsWithoutOpenFolder(root) ==
    \A i \in 1..Len(MeasuredLines) :
        NonBlank(MeasuredLines[i]) /\ OpenFoldersBefore(MeasuredLines, i) = {}
            => InRoot(root, IdOfLine(i))

RootsWithoutLessIndented(root) ==
    \A i \in 1..Len(MeasuredLines) :
        NonBlank(MeasuredLines[i]) /\ LessIndentedBefore(MeasuredLines, i) = {}
            => InRoot(root, IdOfLine(i))

----------------------------------------------------------------------------
(* Further properties of the backlinks index *)

RelativeHref == <<".", "/", "p">>

\* the directory of a page path: the path up to its last "/"
DirOf(path) ==
    LET slashes == {i \in 1..Len(path) : path[i] = "/"}
    IN  IF slashes = {} THEN <<>> ELSE SubSeq(path, 1, Max(slashes) - 1)

\* the absolute path a "./name" href of a page stands for
Resolved(page, href) == DirOf(page.path) \o SubSeq(href, 2, Len(href))

\* C24: a relative href "./p" found in a page is indexed under the absolute
\* path of p in that page's directory, the key an absolute link to the same
\* target is indexed under
C24_RelativeLinksResolved ==
    IndexBuilt =>
        \A i \in 1..Len(pages) :
            LinksTo(pages[i], RelativeHref, <<>>)
                => IndexedUnder(Resolved(pages[i], RelativeHref), pages[i])

\* C27: normalizeInternalPath leaves every key of the built index as it is,
\* and getBacklinksForPage of a key returns the bucket stored under it
C27_EveryKeyRetrievable ==
    IndexBuilt =>
        \A b \in 1..Len(index) :
            /\ normalizeInternalPath(index[b].key) = index[b].key
            /\ getBacklinksForPage(index[b].key, index) = Arr(index[b].entries)


----------------------------------------------------------------------------
(* Mermaid rendering: renderMermaidInIframe of src/hooks/useMermaid.ts     *)

MaxCalls == 2    \* most renderMermaidInIframe calls

\* the values `mermaid-${Math.random().toString(36).slice(2, 11)}` takes
MessageIds == {"mermaid-a", "mermaid-b"}

Success == "mermaid-success"
Failure == "mermaid-error"

\* event.data of a message that is no object: reading its messageId gives
\* undefined
NullData == [type |-> "undefined", messageId |-> "undefined"]

\* what settled a promise, when it was no message
Unsettled == [type |-> "none", messageId |-> "none"]
ByReturn == [type |-> "return", messageId |-> "none"]
ByTimeout == [type |-> "timeout", messageId |-> "none"]
ByDocument == [type |-> "document", messageId |-> "none"]

\* the last resolve or reject wins
settle_overwrite(call, state, value, by) ==
    [call EXCEPT !.promise = state, !.value = value, !.settledBy = by]

\* a settled promise keeps its state: resolve and reject do nothing then
settle(call, state, value, by) ==
    IF call.promise = "pending"
    THEN [call EXCEPT !.promise = state, !.value = value, !.settledBy = by]
    ELSE call

\* window.removeEventListener("message", handleMessage); iframe.remove()
\* (iframe is "none" when the iframe is not in the document, "loading" while
\* its script has not posted its result and "posted" after that)
cleanup(call) == [call EXCEPT !.listener = FALSE, !.iframe = "none"]

\* the message is handled whatever its messageId
isOwnMessage_any(call, data) == TRUE

\* !(event.data?.messageId !== messageId)
isOwnMessage(call, data) == data.messageId = call.messageId

\* handleMessage(event) of a call whose listener is registered
handleMessage(call, data) ==
    IF ~isOwnMessage(call, data) THEN call
    ELSE IF data.type = Success
         THEN settle(cleanup(call), "resolved", "svg", data)
         ELSE settle(cleanup(call), "rejected", "Mermaid render failed", data)

\* the callback of setTimeout(..., 10000)
onTimeout(call) ==
    [settle(cleanup(call), "rejected", "Mermaid render timeout", ByTimeout)
        EXCEPT !.timer = FALSE]

\* if (!chart || typeof window === "undefined") return ""
returnedEmpty ==
    [chart |-> "", messageId |-> "none", promise |-> "resolved", value |-> "",
     listener |-> FALSE, iframe |-> "none", timer |-> FALSE,
     settledBy |-> ByReturn]

\* the executor of the promise up to the check of iframeDoc
started(chart, messageId) ==
    [chart |-> chart, messageId |-> messageId, promise |-> "pending", value |-> "",
     listener |-> TRUE, iframe |-> "loading", timer |-> TRUE,
     settledBy |-> Unsettled]

\* if (!iframeDoc) { cleanup(); clearTimeout(timeout); reject(...); return; }
withoutDocument(call) ==
    [settle(cleanup(call), "rejected", "Cannot access iframe document", ByDocument)
        EXCEPT !.timer = FALSE]

renderMermaidInIframe(chart, hasWindow, messageId, hasDocument) ==
    IF chart = "" \/ ~hasWindow THEN returnedEmpty
    ELSE IF ~hasDocument THEN withoutDocument(started(chart, messageId))
    ELSE started(chart, messageId)

(* Inputs *)

Charts == {"", "graph"}

\* messages other windows post: data that is no object, a success message
\* and a message of another type, both with a messageId a call can have
ForeignMessages ==
    {NullData, [type |-> Success, messageId |-> "mermaid-a"],
     [type |-> "other", messageId |-> "mermaid-a"]}

(* The state machine *)

CallIds == 1..Len(calls)

\* a call of renderMermaidInIframe
Render ==
    /\ Len(calls) < MaxCalls
    /\ \E chart \in Charts, hasWindow \in BOOLEAN, id \in MessageIds,
          hasDocument \in BOOLEAN :
          calls' = Append(calls, renderMermaidInIframe(chart, hasWindow, id, hasDocument))
    /\ UNCHANGED <<extractVars, diffVars, treeVars, backlinkVars, tocVars,
                   headingVars, semverVars, versionVars, levelTreeVars,
                   inFlight, storeVars, done>>

\* the script of an iframe that is still in the document posts its result
IframePosts ==
    /\ \E c \in CallIds, type \in {Success, Failure} :
          /\ calls[c].iframe = "loading"
          /\ inFlight' = inFlight \cup {[type |-> type, messageId |-> calls[c].messageId]}
          /\ calls' = [calls EXCEPT ![c].iframe = "posted"]
    /\ UNCHANGED <<extractVars, diffVars, treeVars, backlinkVars, tocVars,
                   headingVars, semverVars, versionVars, levelTreeVars,
                   storeVars, done>>

\* another window posts a message to this window
ForeignPost ==
    /\ \E data \in ForeignMessages :
          /\ data \notin inFlight
          /\ inFlight' = inFlight \cup {data}
    /\ UNCHANGED <<extractVars, diffVars, treeVars, backlinkVars, tocVars,
                   headingVars, semverVars, versionVars, levelTreeVars,
                   calls, storeVars, done>>

\* the window dispatches a message event to every registered listener
Deliver ==
    /\ \E data \in inFlight :
          /\ inFlight' = inFlight \ {data}
          /\ calls' = [c \in CallIds |->
                          IF calls[c].listener THEN handleMessage(calls[c], data)
                          ELSE calls[c]]
    /\ UNCHANGED <<extractVars, diffVars, treeVars, backlinkVars, tocVars,
                   headingVars, semverVars, versionVars, levelTreeVars,
                   storeVars, done>>

\* the 10-second timer of call c fires
Timeout(c) ==
    /\ c \in CallIds
    /\ calls[c].timer
    /\ calls' = [calls EXCEPT ![c] = onTimeout(calls[c])]
    /\ UNCHANGED <<extractVars, diffVars, treeVars, backlinkVars, tocVars,
                   headingVars, semverVars, versionVars, levelTreeVars,
                   inFlight, storeVars, done>>

Timeouts == \E c \in 1..MaxCalls : Timeout(c)

InitMermaid ==
    /\ calls = <<>>
    /\ inFlight = {}
    /\ IdleExtract
    /\ IdleDiff
    /\ IdleTree
    /\ IdleBacklinks
    /\ IdleToc
    /\ IdleHeading
    /\ IdleSemVer
    /\ IdleVersions
    /\ IdleLevelTree
    /\ IdleStore
    /\ done = {}

NextMermaid == Render \/ IframePosts \/ ForeignPost \/ Deliver \/ Timeouts

SpecMermaid == InitMermaid /\ [][NextMermaid]_vars

\* a timer that is set fires: the event loop runs the callback of setTimeout
SpecMermaidFair ==
    SpecMermaid /\ \A c \in 1..MaxCalls : WF_vars(Timeout(c))


(* Claims *)

SettledByMessage(call) ==
    call.settledBy \notin {Unsettled, ByReturn, ByTimeout, ByDocument}

\* a call settled by a message was settled by a message with its messageId,
\* and resolved exactly when that message was a success message
SettledByOwnMessage ==
    \A c \in CallIds :
        SettledByMessage(calls[c]) =>
            /\ calls[c].settledBy.messageId = calls[c].messageId
            /\ calls[c].promise = "resolved" <=> calls[c].settledBy.type = Success
            /\ calls[c].promise = "rejected" <=> calls[c].settledBy.type # Success

\* the step dispatches the message data
Delivers(data) == data \in inFlight /\ inFlight' = inFlight \ {data}

\* a message with another messageId leaves the call as it is
OtherMessagesIgnored ==
    \A data \in inFlight :
        Delivers(data) =>
            \A c \in CallIds :
                data.messageId # calls[c].messageId => calls'[c] = calls[c]

\* C25: with several calls in flight and their messages dispatched in any
\* order, a call is settled by a message only when the message carries its
\* messageId (resolved on mermaid-success, rejected otherwise), and a message
\* with another messageId leaves its promise, listener and iframe unchanged
C25_SettledOnlyByOwnMessage ==
    []SettledByOwnMessage /\ [][OtherMessagesIgnored]_vars

\* the second call was settled by its message while the first, with another
\* messageId, is still waiting
C25_Witness ==
    /\ Len(calls) = 2
    /\ calls[1].messageId # calls[2].messageId
    /\ calls[1].promise = "pending" /\ calls[1].listener
    /\ calls[1].iframe = "posted"
    /\ calls[2].promise = "resolved" /\ calls[2].settledBy.type = Success

\* after a call has settled its iframe is removed and its listener is
\* unregistered
CleanAfterSettle ==
    \A c \in CallIds :
        calls[c].promise # "pending" =>
            ~calls[c].listener /\ calls[c].iframe = "none"

\* a settled call keeps its outcome
OutcomeKept ==
    \A c \in CallIds :
        calls[c].promise # "pending" =>
            /\ calls'[c].promise = calls[c].promise
            /\ calls'[c].value = calls[c].value
            /\ calls'[c].settledBy = calls[c].settledBy

\* every call made settles
EverySettles ==
    \A c \in 1..MaxCalls :
        [](Len(calls) >= c => <>(Len(calls) >= c /\ calls[c].promise # "pending"))

\* C26: every call with a chart settles (by a success message, an error
\* message, the timeout or the missing iframe document), keeps the outcome of
\* its first settling, and from then on has no iframe and no listener; a
\* timeout that fires after a message has settled the call changes nothing
C26_SettlesOnceAndCleansUp ==
    []CleanAfterSettle /\ [][OutcomeKept]_vars /\ EverySettles

\* the timer of a call fired after a message had settled the call
C26_Witness ==
    \E c \in CallIds :
        /\ calls[c].promise = "resolved"
        /\ calls[c].settledBy.type = Success
        /\ ~calls[c].timer
        /\ ~calls[c].listener /\ calls[c].iframe = "none"


----------------------------------------------------------------------------
(* The command palette store: keyboardStore of                             *)
(* src/components/CommandDialog.tsx                                        *)

MaxSubs == 3     \* most subscribe calls

\* the store object and the two handler registrations it manages
Store ==
    [isOpen |-> isOpen, listeners |-> storeListeners,
     keydown |-> keydownAttached, palette |-> paletteAttached]

\* subscribe(listener) up to the return of the unsubscribe function
subscribe(store, listener) ==
    LET attached == IF store.listeners = {}
                    THEN [store EXCEPT !.keydown = TRUE, !.palette = TRUE]
                    ELSE store
    IN  [attached EXCEPT !.listeners = @ \cup {listener}]

\* the handlers are removed on every call
unsubscribe_detach(store, listener) ==
    [store EXCEPT !.listeners = @ \ {listener}, !.keydown = FALSE, !.palette = FALSE]

\* the function subscribe(listener) returns
unsubscribe(store, listener) ==
    LET deleted == [store EXCEPT !.listeners = @ \ {listener}]
    IN  IF deleted.listeners = {}
        THEN [deleted EXCEPT !.keydown = FALSE, !.palette = FALSE]
        ELSE deleted

\* (event.metaKey || event.ctrlKey) && event.key === "k"
isShortcut(event) == (event.metaKey \/ event.ctrlKey) /\ event.key = "k"

\* handleKeyDown(event): the store after the call and the listeners called
handleKeyDown(store, event) ==
    IF isShortcut(event)
    THEN [store |-> [store EXCEPT !.isOpen = ~store.isOpen], called |-> store.listeners]
    ELSE [store |-> store, called |-> {}]

\* handleCustomEvent()
handleCustomEvent(store) ==
    [store |-> [store EXCEPT !.isOpen = TRUE], called |-> store.listeners]

\* setOpen(value)
setOpen(store, value) ==
    [store |-> [store EXCEPT !.isOpen = value], called |-> store.listeners]

(* Inputs *)

KeyEvents == [metaKey : BOOLEAN, ctrlKey : BOOLEAN, key : {"k", "j"}]

(* The state machine *)

SetStore(store) ==
    /\ isOpen' = store.isOpen
    /\ storeListeners' = store.listeners
    /\ keydownAttached' = store.keydown
    /\ paletteAttached' = store.palette

OtherThanStore ==
    <<extractVars, diffVars, treeVars, backlinkVars, tocVars, headingVars,
      semverVars, versionVars, levelTreeVars, mermaidVars, done>>

\* useSyncExternalStore subscribes with a listener of its own making: the
\* listener of the k-th subscription is the function k
Subscribe ==
    /\ Len(subscriptions) < MaxSubs
    /\ SetStore(subscribe(Store, Len(subscriptions) + 1))
    /\ subscriptions' = Append(subscriptions, "active")
    /\ lastNotified' = NoEvent
    /\ UNCHANGED OtherThanStore

\* the unsubscribe function of a subscription is called, for the first time
\* or again
Unsubscribe ==
    /\ \E k \in 1..Len(subscriptions) :
          /\ SetStore(unsubscribe(Store, k))
          /\ subscriptions' = [subscriptions EXCEPT ![k] = "ended"]
    /\ lastNotified' = NoEvent
    /\ UNCHANGED OtherThanStore

\* a key is pressed: the document calls handleKeyDown when it is attached
KeyDown ==
    /\ \E event \in KeyEvents :
          LET after == IF keydownAttached THEN handleKeyDown(Store, event)
                       ELSE [store |-> Store, called |-> {}]
          IN  /\ SetStore(after.store)
              /\ lastNotified' =
                     [event |-> IF isShortcut(event) THEN "toggle" ELSE "key",
                      listeners |-> after.called]
    /\ UNCHANGED <<OtherThanStore, subscriptions>>

\* an "open-command-palette" event is dispatched on the window
OpenPalette ==
    /\ LET after == IF paletteAttached THEN handleCustomEvent(Store)
                    ELSE [store |-> Store, called |-> {}]
       IN  /\ SetStore(after.store)
           /\ lastNotified' = [event |-> "open", listeners |-> after.called]
    /\ UNCHANGED <<OtherThanStore, subscriptions>>

\* keyboardStore.setOpen(value)
SetOpen ==
    /\ \E value \in BOOLEAN :
          LET after == setOpen(Store, value)
          IN  /\ SetStore(after.store)
              /\ lastNotified' = [event |-> "setOpen", listeners |-> after.called]
    /\ UNCHANGED <<OtherThanStore, subscriptions>>

InitStore ==
    /\ storeListeners = {}
    /\ keydownAttached = FALSE
    /\ paletteAttached = FALSE
    /\ isOpen = FALSE
    /\ subscriptions = <<>>
    /\ lastNotified = NoEvent
    /\ IdleExtract
    /\ IdleDiff
    /\ IdleTree
    /\ IdleBacklinks
    /\ IdleToc
    /\ IdleHeading
    /\ IdleSemVer
    /\ IdleVersions
    /\ IdleLevelTree
    /\ IdleMermaid
    /\ done = {}

NextStore == Subscribe \/ Unsubscribe \/ KeyDown \/ OpenPalette \/ SetOpen

SpecStore == InitStore /\ [][NextStore]_vars

(* Claims *)

\* the subscriptions whose unsubscribe function has not been called
ActiveSubscribers == {k \in 1..Len(subscriptions) : subscriptions[k] = "active"}

\* C30: after any sequence of subscribe calls and calls of the functions
\* they returned, the keydown handler and the open-command-palette handler
\* are attached exactly when a subscription is active, and a Cmd/Ctrl+K
\* toggle or an open event calls the listener of every active subscription
C30_HandlersAttachedIffSubscribed ==
    /\ keydownAttached <=> ActiveSubscribers # {}
    /\ paletteAttached <=> ActiveSubscribers # {}
    /\ storeListeners = ActiveSubscribers
    /\ lastNotified.event \in {"toggle", "open"}
           => lastNotified.listeners = ActiveSubscribers

\* one subscription has ended, two are active and a toggle has called both
C30_Witness ==
    /\ subscriptions = <<"ended", "active", "active">>
    /\ lastNotified = [event |-> "toggle", listeners |-> {2, 3}]
    /\ isOpen

====
